---- MODULE Spec2Model ----
(***************************************************************************)
(* Specialized Turbo integration: the BLE telemetry coordinator, the       *)
(* protocol layer it calls (field registry, frame decoder and encoder,     *)
(* advertisement matcher, telemetry snapshot), the sensor value functions, *)
(* the config flow and the diagnostics.                                    *)
(*                                                                         *)
(* custom_components/specialized_turbo/lib/__init__.py re-exports the      *)
(* protocol layer from lib/protocol.py and lib/models.py.  Those two files *)
(* are modelled from the specification (sections 3, 4, 6 and 8); all other *)
(* definitions are translated from the Python sources.                     *)
(***************************************************************************)
EXTENDS Integers, Sequences, FiniteSets, TLC

VARIABLES
    snapshot,          \* coordinator.snapshot : TelemetrySnapshot
    _client,           \* coordinator._client : "None" | "device" | "client"
    is_connected,      \* _client.is_connected of the BleakClient held (FALSE when none)
    subscribed,        \* a CHAR_NOTIFY subscription delivers to _notification_handler
    listener_updates,  \* number of async_set_updated_data(None) pushes so far
    listener_view,     \* the snapshot as the listeners read it during the last push
    op,                \* the operation that produced this state
    data,              \* bytes of the last notification / frame given to parse_message
    msg,               \* ParsedMessage (or failure) of the last parse_message call
    handler_result,    \* how the last _notification_handler call ended
    observed,          \* history: field names folded into the snapshot so far
    manufacturer_data, \* advertisement input of the last matcher call
    adv_result,        \* result of the last _is_specialized_service_info call
    stopped,           \* async_shutdown has run: the coordinator polls no more
    req_args,          \* arguments of the last build_request call
    request,           \* bytes the last build_request call returned
    entries,           \* hass.config_entries of this domain, in creation order
    flows,             \* the config flows, by flow id
    flow_call,         \* inputs and outcomes of the last config-flow step
    diag_in,           \* the config entries handed to the diagnostics
    diag_out,          \* what async_get_config_entry_diagnostics returned for them
    config_entries,    \* the config entries being set up and unloaded, by entry id
    hass_data,         \* hass.data[DOMAIN]: the entry ids that hold a coordinator
    setup_call,        \* inputs and outcomes of the last setup or unload
    _pin,              \* coordinator._pin
    _was_unavailable,  \* coordinator._was_unavailable ("unset": no such attribute)
    ble_calls,         \* the Bluetooth calls the last _ensure_connected made, in order
    ensure_call,       \* the last _ensure_connected: outcomes given, how it ended
    tasks,             \* overlapping _ensure_connected calls: where each stands
    clients,           \* the BleakClient each of those calls created
    frame_folds        \* how often the last frame of the bike was folded in

\* The coordinator, the decoder's and the matcher's last call.
coordVars == <<snapshot, _client, is_connected, subscribed, listener_updates,
               listener_view, data, msg, handler_result, observed,
               manufacturer_data, adv_result, stopped>>
encVars == <<req_args, request>>
flowVars == <<entries, flows, flow_call>>
diagVars == <<diag_in, diag_out>>
setupVars == <<config_entries, hass_data, setup_call>>
connVars == <<_pin, _was_unavailable, ble_calls, ensure_call>>

overlapVars == <<tasks, clients, frame_folds>>

vars == <<coordVars, op, encVars, flowVars, diagVars, setupVars, connVars,
          overlapVars>>

-----------------------------------------------------------------------------
(* Bounds of the model.                                                    *)

\* Notifications folded or dropped in one behaviour.
MaxMessages == 2
\* Value bytes (after the 2 header bytes) of a generated frame.
MaxValueBytes == 3
\* Raw integers 0..MaxRawSample (and their negatives, for signed fields) are
\* round-tripped, next to the extremes of each width.
MaxRawSample == 4
\* Bytes of a manufacturer-data value beyond the magic prefix.
MaxAdvExtra == 1

-----------------------------------------------------------------------------
(* Python values.  Every snapshot field and every converted_value is a     *)
(* record of one shape: None, a number (the exact rational n/d of          *)
(* raw * scale), a symbolic AssistLevel (n is its value), or the raw       *)
(* integer kept for an unknown assist level.                               *)

\* Python None for an optional string (field_name, unit).
NoneStr == "None"

NoneValue == [kind |-> "none", n |-> 0, d |-> 1]

RECURSIVE Gcd(_, _)
Gcd(a, b) == IF b = 0 THEN a ELSE Gcd(b, a % b)

Abs(i) == IF i < 0 THEN -i ELSE i

\* The number n/d (d > 0) in lowest terms.
Num(n, d) ==
    LET g == Gcd(Abs(n), d)
    IN  [kind |-> "num", n |-> n \div g, d |-> d \div g]

Known(level) == [kind |-> "known", n |-> level, d |-> 1]

Raw(i) == [kind |-> "raw", n |-> i, d |-> 1]

-----------------------------------------------------------------------------
(* Field registry (lib/protocol.py).  The specification documents the      *)
(* battery charge and speed entries; the other entries stand for the       *)
(* remaining shapes a FieldDefinition can take (signed, symbolic enum,     *)
(* settings origin).                                                       *)

FieldDefinition(name, unit, w, sn, sd, signed, endianness, enum) ==
    [name |-> name, unit |-> unit, byte_width |-> w, scale_n |-> sn,
     scale_d |-> sd, signed |-> signed, endianness |-> endianness,
     enum |-> enum]

NoFieldDef == FieldDefinition(NoneStr, NoneStr, 1, 1, 1, FALSE, "little", FALSE)

\* Sender tags.
SENDER_BATTERY == 0
SENDER_MOTOR == 1
SENDER_SETTINGS == 2

RegistryKeys == {<<0, 12>>, <<0, 6>>, <<1, 2>>, <<1, 5>>, <<2, 0>>}

get_field_def(origin, channel) ==
    CASE <<origin, channel>> = <<SENDER_BATTERY, 12>> ->
            FieldDefinition("charge_pct", "%", 1, 1, 1, FALSE, "little", FALSE)
      [] <<origin, channel>> = <<SENDER_BATTERY, 6>> ->
            FieldDefinition("current_a", "A", 1, 1, 5, TRUE, "little", FALSE)
      [] <<origin, channel>> = <<SENDER_MOTOR, 2>> ->
            FieldDefinition("speed_kmh", "km/h", 2, 1, 10, FALSE, "little", FALSE)
      [] <<origin, channel>> = <<SENDER_MOTOR, 5>> ->
            FieldDefinition("assist_level", NoneStr, 1, 1, 1, FALSE, "little", TRUE)
      [] <<origin, channel>> = <<SENDER_SETTINGS, 0>> ->
            FieldDefinition("assist_lev1_pct", "%", 1, 1, 1, FALSE, "little", FALSE)
      [] OTHER -> NoFieldDef

\* AssistLevel: 0 OFF, 1 ECO, 2 TRAIL, 3 TURBO.
AssistLevelValues == 0 .. 3

-----------------------------------------------------------------------------
(* Frame decoder (lib/protocol.py).                                        *)

RECURSIVE Pow256(_)
Pow256(k) == IF k = 0 THEN 1 ELSE 256 * Pow256(k - 1)

\* int.from_bytes(bs, "little"): byte i (from 1) weighs 256^(i-1).
RECURSIVE FromLittle(_)
FromLittle(bs) ==
    IF bs = <<>> THEN 0 ELSE Head(bs) + 256 * FromLittle(Tail(bs))

\* int.from_bytes(bs, "big"): the first byte is the most significant.
RECURSIVE FromBig(_)
FromBig(bs) ==
    IF bs = <<>> THEN 0
    ELSE Head(bs) * Pow256(Len(bs) - 1) + FromBig(Tail(bs))

\* Variant: the bytes are always read most significant first.
IntFromBytes_BigEndian(bs, endianness, signed) ==
    LET u == FromBig(bs)
    IN  IF signed /\ u >= Pow256(Len(bs)) \div 2 THEN u - Pow256(Len(bs)) ELSE u

\* Variant: the sign bit is never interpreted.
IntFromBytes_Unsigned(bs, endianness, signed) ==
    IF endianness = "little" THEN FromLittle(bs) ELSE FromBig(bs)

\* The integer held by bs under the declared byte order and signedness.
IntFromBytes(bs, endianness, signed) ==
    LET u == IF endianness = "little" THEN FromLittle(bs) ELSE FromBig(bs)
    IN  IF signed /\ u >= Pow256(Len(bs)) \div 2 THEN u - Pow256(Len(bs)) ELSE u

FrameTooShort == [ok |-> FALSE, error |-> "FrameTooShort", origin |-> 0,
                  channel |-> 0, field_name |-> NoneStr, raw_bytes |-> <<>>,
                  converted_value |-> NoneValue, unit |-> NoneStr]

ParsedMessage(origin, channel, field_name, raw_bytes, converted_value, unit) ==
    [ok |-> TRUE, error |-> NoneStr, origin |-> origin, channel |-> channel,
     field_name |-> field_name, raw_bytes |-> raw_bytes,
     converted_value |-> converted_value, unit |-> unit]

\* raw * scale, or the symbolic level / raw fallback of an enum field.
ConvertValue(def, raw) ==
    IF def.enum
    THEN IF raw \in AssistLevelValues THEN Known(raw) ELSE Raw(raw)
    ELSE Num(raw * def.scale_n, def.scale_d)

\* Variant: only the two header bytes are required.
parse_message_HeaderOnly(bytes) ==
    IF Len(bytes) < 2 THEN FrameTooShort
    ELSE LET origin == bytes[1]
             channel == bytes[2]
             def == get_field_def(origin, channel)
             rest == SubSeq(bytes, 3, Len(bytes))
         IN  IF def = NoFieldDef
             THEN ParsedMessage(origin, channel, NoneStr, rest, NoneValue, NoneStr)
             ELSE IF Len(bytes) < 2 + def.byte_width THEN FrameTooShort
             ELSE LET value == SubSeq(bytes, 3, 2 + def.byte_width)
                      raw == IntFromBytes(value, def.endianness, def.signed)
                  IN  ParsedMessage(origin, channel, def.name, value,
                                    ConvertValue(def, raw), def.unit)

\* Variant: a recognized field is decoded from the bytes that are there.
parse_message_NoWidthCheck(bytes) ==
    IF Len(bytes) < 3 THEN FrameTooShort
    ELSE LET origin == bytes[1]
             channel == bytes[2]
             def == get_field_def(origin, channel)
             rest == SubSeq(bytes, 3, Len(bytes))
         IN  IF def = NoFieldDef
             THEN ParsedMessage(origin, channel, NoneStr, rest, NoneValue, NoneStr)
             ELSE LET value == SubSeq(bytes, 3,
                                      IF Len(bytes) < 2 + def.byte_width
                                      THEN Len(bytes) ELSE 2 + def.byte_width)
                      raw == IntFromBytes(value, def.endianness, def.signed)
                  IN  ParsedMessage(origin, channel, def.name, value,
                                    ConvertValue(def, raw), def.unit)

parse_message(bytes) ==
    IF Len(bytes) < 3 THEN FrameTooShort
    ELSE LET origin == bytes[1]
             channel == bytes[2]
             def == get_field_def(origin, channel)
             rest == SubSeq(bytes, 3, Len(bytes))
         IN  IF def = NoFieldDef
             THEN ParsedMessage(origin, channel, NoneStr, rest, NoneValue, NoneStr)
             ELSE IF Len(bytes) < 2 + def.byte_width THEN FrameTooShort
             ELSE LET value == SubSeq(bytes, 3, 2 + def.byte_width)
                      raw == IntFromBytes(value, def.endianness, def.signed)
                  IN  ParsedMessage(origin, channel, def.name, value,
                                    ConvertValue(def, raw), def.unit)

-----------------------------------------------------------------------------
(* Telemetry snapshot (lib/models.py).                                     *)

BatteryFields == {"charge_pct", "capacity_wh", "remaining_wh", "health_pct",
                  "temp_c", "charge_cycles", "voltage_v", "current_a"}

MotorFields == {"speed_kmh", "rider_power_w", "motor_power_w", "cadence_rpm",
                "odometer_km", "motor_temp_c", "assist_level"}

SettingsFields == {"assist_lev1_pct", "assist_lev2_pct", "assist_lev3_pct"}

BatteryState == [f \in BatteryFields |-> NoneValue]

MotorState == [f \in MotorFields |-> NoneValue]

BikeSettings == [f \in SettingsFields |-> NoneValue]

TelemetrySnapshot ==
    [message_count |-> 0, battery |-> BatteryState, motor |-> MotorState,
     settings |-> BikeSettings]

\* Variant: only a message that names a field is counted.
update_from_message_CountNamedOnly(snap, m) ==
    LET counted == IF m.field_name = NoneStr THEN snap
                   ELSE [snap EXCEPT !.message_count = @ + 1]
    IN  CASE m.field_name \in BatteryFields ->
                [counted EXCEPT !.battery[m.field_name] = m.converted_value]
          [] m.field_name \in MotorFields ->
                [counted EXCEPT !.motor[m.field_name] = m.converted_value]
          [] m.field_name \in SettingsFields ->
                [counted EXCEPT !.settings[m.field_name] = m.converted_value]
          [] OTHER -> counted

\* Variant: a field that already holds a value keeps it (first write wins).
update_from_message_KeepFirst(snap, m) ==
    LET counted == [snap EXCEPT !.message_count = @ + 1]
        keep(old) == IF old = NoneValue THEN m.converted_value ELSE old
    IN  CASE m.field_name \in BatteryFields ->
                [counted EXCEPT !.battery[m.field_name] = keep(@)]
          [] m.field_name \in MotorFields ->
                [counted EXCEPT !.motor[m.field_name] = keep(@)]
          [] m.field_name \in SettingsFields ->
                [counted EXCEPT !.settings[m.field_name] = keep(@)]
          [] OTHER -> counted

\* Count the message; store its value under the attribute field_name names.
update_from_message(snap, m) ==
    LET counted == [snap EXCEPT !.message_count = @ + 1]
    IN  CASE m.field_name \in BatteryFields ->
                [counted EXCEPT !.battery[m.field_name] = m.converted_value]
          [] m.field_name \in MotorFields ->
                [counted EXCEPT !.motor[m.field_name] = m.converted_value]
          [] m.field_name \in SettingsFields ->
                [counted EXCEPT !.settings[m.field_name] = m.converted_value]
          [] OTHER -> counted

-----------------------------------------------------------------------------
(* Advertisement matcher (lib/protocol.py) and its caller in the config    *)
(* flow.                                                                   *)

NORDIC_COMPANY_ID == 89

\* b"TURBO"
ADVERTISING_MAGIC == <<84, 85, 82, 66, 79>>

\* bytes.startswith
StartsWith(bs, prefix) ==
    /\ Len(bs) >= Len(prefix)
    /\ SubSeq(bs, 1, Len(prefix)) = prefix

is_specialized_advertisement(md) ==
    IF NORDIC_COMPANY_ID \in DOMAIN md
    THEN StartsWith(md[NORDIC_COMPANY_ID], ADVERTISING_MAGIC)
    ELSE FALSE

\* Variant: any advertisement with manufacturer data is accepted.
_is_specialized_service_info_AnyData(md) == DOMAIN md # {}

_is_specialized_service_info(md) == is_specialized_advertisement(md)

-----------------------------------------------------------------------------
(* Sensor platform (sensor.py).                                            *)

Str(s) == [kind |-> "str", s |-> s]

\* Variant: the member's name as declared, without capitalize().
AssistLevelName_NotCapitalized(level) ==
    CASE level = 0 -> "OFF"
      [] level = 1 -> "ECO"
      [] level = 2 -> "TRAIL"
      [] level = 3 -> "TURBO"

\* AssistLevel(level).name.capitalize()
AssistLevelName(level) ==
    CASE level = 0 -> "Off"
      [] level = 1 -> "Eco"
      [] level = 2 -> "Trail"
      [] level = 3 -> "Turbo"

\* Variant: str(level) without the None check.
_assist_level_name_NoNoneCheck(snap) ==
    LET level == snap.motor.assist_level
    IN  IF level = NoneValue THEN Str("None")
        ELSE IF level.kind = "known" THEN Str(AssistLevelName(level.n))
        ELSE Str(ToString(level.n))

_assist_level_name(snap) ==
    LET level == snap.motor.assist_level
    IN  IF level = NoneValue THEN NoneValue
        ELSE IF level.kind = "known" THEN Str(AssistLevelName(level.n))
        ELSE Str(ToString(level.n))

\* key |-> the snapshot attribute its value_fn reads
SensorField ==
    [battery_charge_percent |-> <<"battery", "charge_pct">>,
     battery_capacity_wh |-> <<"battery", "capacity_wh">>,
     battery_remaining_wh |-> <<"battery", "remaining_wh">>,
     battery_health |-> <<"battery", "health_pct">>,
     battery_temp |-> <<"battery", "temp_c">>,
     battery_charge_cycles |-> <<"battery", "charge_cycles">>,
     battery_voltage |-> <<"battery", "voltage_v">>,
     battery_current |-> <<"battery", "current_a">>,
     speed |-> <<"motor", "speed_kmh">>,
     rider_power |-> <<"motor", "rider_power_w">>,
     motor_power |-> <<"motor", "motor_power_w">>,
     cadence |-> <<"motor", "cadence_rpm">>,
     odometer |-> <<"motor", "odometer_km">>,
     motor_temp |-> <<"motor", "motor_temp_c">>,
     assist_level |-> <<"motor", "assist_level">>,
     assist_eco_pct |-> <<"settings", "assist_lev1_pct">>,
     assist_trail_pct |-> <<"settings", "assist_lev2_pct">>,
     assist_turbo_pct |-> <<"settings", "assist_lev3_pct">>]

SENSOR_DESCRIPTIONS == DOMAIN SensorField

\* description.value_fn(snap)
value_fn(key, snap) ==
    IF key = "assist_level" THEN _assist_level_name(snap)
    ELSE snap[SensorField[key][1]][SensorField[key][2]]

\* SpecializedTurboSensor.native_value
native_value(key) == value_fn(key, snapshot)

\* Variant: a sensor is available only while a client is held.
available_WhileConnected == snapshot.message_count > 0 /\ _client = "client"

\* SpecializedTurboSensor.available
available == snapshot.message_count > 0

-----------------------------------------------------------------------------
(* Inputs.                                                                 *)

\* 0x00, 0x55, 0xFF
ValueByteSamples == {0, 85, 255}

\* All sequences over S of length at most n.
SeqsUpTo(S, n) == UNION {[1 .. k -> S] : k \in 0 .. n}

\* An unknown origin, and an unknown channel of a known origin.
UnknownKeys == {<<3, 0>>, <<0, 1>>}

Headers == RegistryKeys \cup UnknownKeys

\* The widest value a registry entry declares.
MaxByteWidth ==
    CHOOSE w \in 1 .. 8 :
        /\ \E k \in RegistryKeys : get_field_def(k[1], k[2]).byte_width = w
        /\ \A k \in RegistryKeys : get_field_def(k[1], k[2]).byte_width <= w

\* Frames with a header and 0..n value bytes, the frames cut inside the
\* header, and the unknown-origin frame [0x03, 0x00, 0x42].
FramesUpTo(n) ==
    {<<h[1], h[2]>> \o v : h \in Headers, v \in SeqsUpTo(ValueByteSamples, n)}
        \cup {<<>>, <<3, 0, 66>>} \cup {<<h[1]>> : h \in Headers}

\* Assist-level notifications: every defined level and the first raw value
\* that is none.
AssistFrames == {<<SENDER_MOTOR, 5, r>> : r \in AssistLevelValues \cup {4}}

\* Notifications the bike sends: up to the widest field's value bytes.
Frames == FramesUpTo(MaxByteWidth) \cup AssistFrames

\* int.to_bytes(raw, w, "little", signed=signed)
ToLittle(raw, w) ==
    LET u == IF raw < 0 THEN raw + Pow256(w) ELSE raw
    IN  [i \in 1 .. w |-> (u \div Pow256(i - 1)) % 256]

\* The raw integers a field of this definition is tried with: the small
\* ones and the extremes of its width and signedness.
RawSamples(def) ==
    LET half == Pow256(def.byte_width) \div 2
    IN  IF def.signed
        THEN (-MaxRawSample .. MaxRawSample) \cup {-half, half - 1}
        ELSE (0 .. MaxRawSample) \cup {half - 1, half, 2 * half - 1}

\* The frame of (origin, channel) = k that carries raw.
FrameOf(k, raw) ==
    <<k[1], k[2]>> \o ToLittle(raw, get_field_def(k[1], k[2]).byte_width)

RoundTripFrames ==
    UNION {{FrameOf(k, raw) : raw \in RawSamples(get_field_def(k[1], k[2]))} :
               k \in RegistryKeys}

\* Buffers given to parse_message on its own.
DecodeFrames == FramesUpTo(MaxValueBytes) \cup RoundTripFrames

\* Manufacturer-data values: the magic prefix followed by up to MaxAdvExtra
\* bytes, its proper prefixes, copies with one byte of the prefix changed,
\* and b"TURBOHMItest1234".
AdvGood ==
    {ADVERTISING_MAGIC \o e : e \in SeqsUpTo({72, 0}, MaxAdvExtra)}

AdvValues ==
    AdvGood
        \cup {SubSeq(ADVERTISING_MAGIC, 1, k) : k \in 0 .. Len(ADVERTISING_MAGIC) - 1}
        \cup {[g EXCEPT ![i] = 0] : g \in AdvGood, i \in 1 .. Len(ADVERTISING_MAGIC)}
        \cup {<<84, 85, 82, 66, 79, 72, 77, 73, 116, 101, 115, 116, 49, 50, 51, 52>>}

\* Company ids seen in advertisements: Nordic (0x0059) and another vendor.
CompanyIds == {NORDIC_COMPANY_ID, 76}

\* Mappings from some of the company ids to values, the empty one included.
AdvInputs == UNION {[S -> AdvValues] : S \in SUBSET CompanyIds}

-----------------------------------------------------------------------------
(* Frame encoder: lib/protocol.py, modelled from section 4.3 of the        *)
(* specification.  The optional payload argument is a record: given says   *)
(* whether the caller passed one, bytes holds it.                          *)

PayloadOmitted == [given |-> FALSE, bytes |-> <<>>]

Payload(b) == [given |-> TRUE, bytes |-> b]

\* Variant: the header is written channel first.
build_request_ChannelFirst(origin, channel, payload) ==
    <<channel, origin>> \o (IF payload.given THEN payload.bytes ELSE <<>>)

\* build_request(origin, channel, payload=None) -> bytes
build_request(origin, channel, payload) ==
    <<origin, channel>> \o (IF payload.given THEN payload.bytes ELSE <<>>)

-----------------------------------------------------------------------------
(* Config flow (config_flow.py).  A flow is the record of one              *)
(* SpecializedTurboConfigFlow instance; the flow manager's part            *)
(* (unique ids, aborting, adding the entry) is what the calls              *)
(* async_set_unique_id, _abort_if_unique_id_configured, async_create_entry *)
(* and async_update_reload_and_abort of the handlers do.                   *)

\* Config flows started in one behaviour.
MaxFlows == 2

\* user_input.get(CONF_PIN): None when the form's optional field is empty.
PinNone == [kind |-> "none", n |-> 0]

PinOf(n) == [kind |-> "int", n |-> n]

Pins == {PinNone, PinOf(1234), PinOf(5678)}

MOCK_ADDRESS == "DC:DD:BB:4A:D6:55"

MOCK_ADDRESS_FORMATTED == "dc:dd:bb:4a:d6:55"

\* b"TURBOHMItest1234" under the Nordic company id.
MOCK_MANUFACTURER_DATA ==
    NORDIC_COMPANY_ID :>
        <<84, 85, 82, 66, 79, 72, 77, 73, 116, 101, 115, 116, 49, 50, 51, 52>>

\* helpers.device_registry.format_mac on the addresses of ServiceInfos: a
\* colon-separated MAC is lower-cased, which leaves one without letters as
\* it is.
format_mac(mac) ==
    CASE mac = MOCK_ADDRESS -> MOCK_ADDRESS_FORMATTED
      [] mac = "AA:BB:CC:DD:EE:FF" -> "aa:bb:cc:dd:ee:ff"
      [] OTHER -> mac

\* Advertisements the Bluetooth integration may hold: two bikes (the address
\* of the second has no letter in it) and a device that is no bike.
ServiceInfos ==
    {[address |-> MOCK_ADDRESS, manufacturer_data |-> MOCK_MANUFACTURER_DATA],
     [address |-> "11:22:33:44:55:66", manufacturer_data |-> MOCK_MANUFACTURER_DATA],
     [address |-> "AA:BB:CC:DD:EE:FF", manufacturer_data |-> <<>>]}

\* How the connection attempt of _async_test_connection goes.
ConnectionOutcomes == {"connected", "no_device", "BleakError", "TimeoutError"}

\* Variant: a missing device is not checked for.
_async_test_connection_NoDeviceCheck(outcome) ==
    IF outcome \in {"BleakError", "TimeoutError"} THEN FALSE
    ELSE TRUE

_async_test_connection(outcome) ==
    IF outcome = "no_device" THEN FALSE
    ELSE IF outcome \in {"BleakError", "TimeoutError"} THEN FALSE
    ELSE TRUE

\* SpecializedTurboConfigFlow.__init__, with the flow's source, the step
\* whose form is open and the errors it shows, context["unique_id"] and the
\* entry a reconfigure flow was started for.
NewFlow(source) ==
    [source |-> source, step |-> "init", errors |-> "none",
     unique_id |-> NoneStr, _discovery_info |-> NoneStr,
     _discovered_devices |-> {}, entry_id |-> NoneStr]

\* A flow that has ended (aborted or finished) is dropped by the manager.
EndedFlow == [NewFlow("none") EXCEPT !.step = "done"]

\* The last call of a step: the flow, whether user_input was given, the
\* errors on the form submitted, the address it was about, the PIN it stored, how its connection test went,
\* the addresses discovered when a flow was started by the user, and the
\* result (type; step_id or reason; errors; addresses offered).  Here no
\* step has been called.
NoCall ==
    [step |-> "none", flow |-> 0, user_input |-> FALSE, address |-> NoneStr,
     shown_errors |-> "none", pin |-> PinNone, outcome |-> "none",
     discovered |-> {},
     type |-> "none", reason |-> "none", errors |-> "none", options |-> {}]

\* Another flow of this handler is in progress with the unique id.
InProgress(fls, f, uid) ==
    \E g \in 1 .. Len(fls) :
        g # f /\ fls[g].step # "done" /\ fls[g].unique_id = uid

\* ConfigFlow._async_current_ids
_async_current_ids(ents) == {ents[i].unique_id : i \in 1 .. Len(ents)}

\* Variant: the check for a configured unique id is left out.
_abort_if_unique_id_configured_Never(uid, ents) == FALSE

\* ConfigFlow._abort_if_unique_id_configured raises AbortFlow when an entry
\* of the domain has the flow's unique id.
_abort_if_unique_id_configured(uid, ents) == uid \in _async_current_ids(ents)

\* The entries after the flow manager has added entry: an entry with the
\* same unique id is removed first.
EntriesAfterCreate(ents, entry) ==
    Append(SelectSeq(ents, LAMBDA e : e.unique_id # entry.unique_id), entry)

\* The flows after flow f has created an entry: f has finished, and the
\* manager aborts the other flows in progress with the same unique id.
FlowsAfterCreate(fls, f) ==
    [g \in 1 .. Len(fls) |->
        IF g = f \/ (fls[g].step # "done" /\ fls[g].unique_id = fls[f].unique_id)
        THEN EndedFlow ELSE fls[g]]

\* async_step_bluetooth: the Bluetooth integration starts a flow for the
\* advertisement info of a bike.  async_set_unique_id aborts the flow when
\* another one is in progress for the unique id.
async_step_bluetooth(info) ==
    /\ Len(flows) < MaxFlows
    /\ LET f == Len(flows) + 1
           uid == format_mac(info.address)
           call == [NoCall EXCEPT !.step = "bluetooth", !.flow = f,
                                  !.address = info.address]
       IN  IF InProgress(flows, f, uid)
           THEN /\ flows' = Append(flows, EndedFlow)
                /\ flow_call' = [call EXCEPT !.type = "abort",
                                             !.reason = "already_in_progress"]
           ELSE IF _abort_if_unique_id_configured(uid, entries)
           THEN /\ flows' = Append(flows, EndedFlow)
                /\ flow_call' = [call EXCEPT !.type = "abort",
                                             !.reason = "already_configured"]
           ELSE /\ flows' = Append(flows,
                        [NewFlow("bluetooth") EXCEPT
                            !.step = "bluetooth_confirm", !.unique_id = uid,
                            !._discovery_info = info.address])
                /\ flow_call' = [call EXCEPT !.type = "form",
                                             !.reason = "bluetooth_confirm"]
    /\ op' = "async_step_bluetooth"
    /\ UNCHANGED <<entries, coordVars, encVars, diagVars, overlapVars, setupVars, connVars>>

\* Variant: a failed connection test aborts the flow.
ConfirmFailed_Abort(flow) == EndedFlow

\* The flow after a failed connection test in bluetooth_confirm: the form
\* of the same step is open again.
ConfirmFailed(flow) ==
    [flow EXCEPT !.step = "bluetooth_confirm", !.errors = "cannot_connect"]

\* async_step_bluetooth_confirm with user_input: the form of flow f is
\* submitted with pin, and the connection test ends as outcome.
async_step_bluetooth_confirm(f, pin, outcome) ==
    /\ f \in 1 .. Len(flows)
    /\ flows[f].step = "bluetooth_confirm"
    /\ LET call == [NoCall EXCEPT !.step = "bluetooth_confirm", !.flow = f,
                                  !.user_input = TRUE,
                                  !.shown_errors = flows[f].errors,
                                  !.address = flows[f]._discovery_info,
                                  !.outcome = outcome]
       IN  IF ~_async_test_connection(outcome)
           THEN /\ flows' = [flows EXCEPT ![f] = ConfirmFailed(@)]
                /\ flow_call' =
                       IF flows'[f].step = "done"
                       THEN [call EXCEPT !.type = "abort", !.reason = "cannot_connect"]
                       ELSE [call EXCEPT !.type = "form",
                                         !.reason = flows'[f].step,
                                         !.errors = "cannot_connect"]
                /\ UNCHANGED entries
           ELSE /\ entries' = EntriesAfterCreate(entries,
                        [unique_id |-> flows[f].unique_id,
                         address |-> flows[f]._discovery_info, pin |-> pin])
                /\ flows' = FlowsAfterCreate(flows, f)
                /\ flow_call' = [call EXCEPT !.type = "create_entry", !.pin = pin]
    /\ op' = "async_step_bluetooth_confirm"
    /\ UNCHANGED <<coordVars, encVars, diagVars, overlapVars, setupVars, connVars>>

\* Variant: every discovered device that has no entry is offered.
DiscoveredDevices_Unfiltered(devices, ents, discovered) ==
    devices \cup {i.address : i \in
        {j \in discovered : j.address \notin _async_current_ids(ents)}}

\* self._discovered_devices after the discovery loop of async_step_user over
\* the advertisements discovered.
DiscoveredDevices(devices, ents, discovered) ==
    devices \cup {i.address : i \in
        {j \in discovered :
            /\ j.address \notin _async_current_ids(ents)
            /\ _is_specialized_service_info(j.manufacturer_data)}}

\* The end of async_step_user: the discovery loop, then the abort or the form.
UserStepResult(call, devices) ==
    IF devices = {}
    THEN [call EXCEPT !.type = "abort", !.reason = "no_devices_found"]
    ELSE [call EXCEPT !.type = "form", !.reason = "user", !.options = devices]

\* async_step_user without user_input: the user starts a flow while the
\* advertisements discovered are known to the Bluetooth integration.
async_step_user_init(discovered) ==
    /\ Len(flows) < MaxFlows
    /\ LET f == Len(flows) + 1
           devices == DiscoveredDevices({}, entries, discovered)
           call == [NoCall EXCEPT !.step = "user", !.flow = f,
                                  !.discovered = {i.address : i \in discovered}]
       IN  /\ flows' = Append(flows,
                   IF devices = {} THEN EndedFlow
                   ELSE [NewFlow("user") EXCEPT !.step = "user",
                                                !._discovered_devices = devices])
           /\ flow_call' = UserStepResult(call, devices)
    /\ op' = "async_step_user"
    /\ UNCHANGED <<entries, coordVars, encVars, diagVars, overlapVars, setupVars, connVars>>

\* async_step_user with user_input: the form of flow f is submitted with one
\* of the addresses it offered.
async_step_user(f, address, pin, outcome, discovered) ==
    /\ f \in 1 .. Len(flows)
    /\ flows[f].step = "user"
    /\ address \in flows[f]._discovered_devices
    /\ LET uid == format_mac(address)
           devices == DiscoveredDevices(flows[f]._discovered_devices, entries,
                                        discovered)
           call == [NoCall EXCEPT !.step = "user", !.flow = f,
                                  !.user_input = TRUE, !.address = address,
                                  !.shown_errors = flows[f].errors]
       IN  IF _abort_if_unique_id_configured(uid, entries)
           THEN /\ flows' = [flows EXCEPT ![f] = EndedFlow]
                /\ flow_call' = [call EXCEPT !.type = "abort",
                                             !.reason = "already_configured"]
                /\ UNCHANGED entries
           ELSE IF ~_async_test_connection(outcome)
           THEN /\ flows' = [flows EXCEPT ![f] =
                       IF devices = {} THEN EndedFlow
                       ELSE [@ EXCEPT !.unique_id = uid, !.errors = "cannot_connect",
                                      !._discovered_devices = devices]]
                /\ flow_call' =
                       [UserStepResult([call EXCEPT !.outcome = outcome], devices)
                        EXCEPT !.errors = IF devices = {} THEN "none"
                                          ELSE "cannot_connect"]
                /\ UNCHANGED entries
           ELSE /\ entries' = EntriesAfterCreate(entries,
                        [unique_id |-> uid, address |-> address, pin |-> pin])
                /\ flows' = FlowsAfterCreate([flows EXCEPT ![f].unique_id = uid], f)
                /\ flow_call' = [call EXCEPT !.outcome = outcome, !.pin = pin,
                                             !.type = "create_entry"]
    /\ op' = "async_step_user"
    /\ UNCHANGED <<coordVars, encVars, diagVars, overlapVars, setupVars, connVars>>

\* async_step_reconfigure without user_input: the user opens the
\* reconfiguration of the entry with the unique id uid.
async_step_reconfigure_init(uid) ==
    /\ Len(flows) < MaxFlows
    /\ uid \in _async_current_ids(entries)
    /\ flows' = Append(flows, [NewFlow("reconfigure") EXCEPT
                                  !.step = "reconfigure", !.entry_id = uid])
    /\ flow_call' = [NoCall EXCEPT !.step = "reconfigure",
                                   !.flow = Len(flows) + 1,
                                   !.type = "form", !.reason = "reconfigure"]
    /\ op' = "async_step_reconfigure"
    /\ UNCHANGED <<entries, coordVars, encVars, diagVars, overlapVars, setupVars, connVars>>

\* Variant: an empty PIN field keeps the stored PIN.
ReconfiguredEntry_KeepWhenEmpty(entry, pin) ==
    IF pin = PinNone THEN entry ELSE [entry EXCEPT !.pin = pin]

\* The entry after async_update_reload_and_abort with
\* data_updates={CONF_PIN: pin}.
ReconfiguredEntry(entry, pin) == [entry EXCEPT !.pin = pin]

\* async_step_reconfigure with user_input: the form of flow f is submitted.
async_step_reconfigure(f, pin) ==
    /\ f \in 1 .. Len(flows)
    /\ flows[f].step = "reconfigure"
    /\ flows[f].entry_id \in _async_current_ids(entries)
    /\ entries' = [i \in 1 .. Len(entries) |->
                      IF entries[i].unique_id = flows[f].entry_id
                      THEN ReconfiguredEntry(entries[i], pin) ELSE entries[i]]
    /\ flows' = [flows EXCEPT ![f] = EndedFlow]
    /\ flow_call' = [NoCall EXCEPT !.step = "reconfigure", !.flow = f,
                                   !.user_input = TRUE, !.pin = pin,
                                   !.address = flows[f].entry_id,
                                   !.type = "abort",
                                   !.reason = "reconfigure_successful"]
    /\ op' = "async_step_reconfigure"
    /\ UNCHANGED <<coordVars, encVars, diagVars, overlapVars, setupVars, connVars>>

-----------------------------------------------------------------------------
(* Diagnostics (diagnostics.py).  A dict is a record of kind "dict" whose  *)
(* items map keys to values: None, an int, a str or another dict.          *)

CONF_PIN == "pin"

CONF_ADDRESS == "address"

Dict(items) == [kind |-> "dict", items |-> items]

\* homeassistant.components.diagnostics.REDACTED
REDACTED == Str("**REDACTED**")

\* Variant: nothing is redacted.
TO_REDACT_Nothing == {}

TO_REDACT == {CONF_PIN}

\* homeassistant.components.diagnostics.async_redact_data on a dict: a value
\* that is None or the empty string is kept, the value of a key to redact is
\* replaced by the marker, a nested dict is redacted in turn.
RECURSIVE async_redact_data(_, _)
async_redact_data(d, to_redact) ==
    IF d.kind # "dict" THEN d
    ELSE Dict([key \in DOMAIN d.items |->
            LET value == d.items[key]
            IN  IF value.kind = "none" THEN value
                ELSE IF value.kind = "str" /\ value.s = "" THEN value
                ELSE IF key \in to_redact THEN REDACTED
                ELSE IF value.kind = "dict" THEN async_redact_data(value, to_redact)
                ELSE value])

\* ConfigEntry.as_dict(), as far as this integration fills it.
as_dict(entry) ==
    Dict(("domain" :> Str("specialized_turbo"))
         @@ ("unique_id" :> Str(entry.unique_id))
         @@ ("data" :> Dict((CONF_ADDRESS :> Str(entry.address))
                            @@ (CONF_PIN :> entry.pin))))

\* async_get_config_entry_diagnostics(hass, entry); reading runtime_data of
\* an entry that has none raises AttributeError.
async_get_config_entry_diagnostics(entry) ==
    IF ~entry.runtime_data.given
    THEN [ok |-> FALSE, error |-> "AttributeError"]
    ELSE LET coordinator == entry.runtime_data
         IN  [ok |-> TRUE,
              entry |-> async_redact_data(as_dict(entry), TO_REDACT),
              snapshot |->
                  [message_count |-> coordinator.snapshot.message_count,
                   battery |-> coordinator.snapshot.battery,
                   motor |-> coordinator.snapshot.motor,
                   settings |-> coordinator.snapshot.settings]]

-----------------------------------------------------------------------------
(* Coordinator (coordinator.py).                                           *)

\* SpecializedTurboCoordinator._needs_poll
_needs_poll == snapshot.message_count = 0

\* Variant: the parse failure is not caught.
NotificationEffect_NoCatch(snap, updates, m) ==
    IF ~m.ok
    THEN [snapshot |-> snap, listener_updates |-> updates, seen |-> snap,
          result |-> "raised"]
    ELSE [snapshot |-> update_from_message(snap, m),
          listener_updates |-> updates + 1,
          seen |-> update_from_message(snap, m), result |-> "returned"]

\* Variant: only messages with a field name are folded in.
NotificationEffect_RecognizedOnly(snap, updates, m) ==
    IF ~m.ok \/ m.field_name = NoneStr
    THEN [snapshot |-> snap, listener_updates |-> updates, seen |-> snap,
          result |-> "returned"]
    ELSE [snapshot |-> update_from_message(snap, m),
          listener_updates |-> updates + 1,
          seen |-> update_from_message(snap, m), result |-> "returned"]

\* Variant: each message is folded into a new snapshot that keeps the count.
NotificationEffect_NewSnapshot(snap, updates, m) ==
    IF ~m.ok
    THEN [snapshot |-> snap, listener_updates |-> updates, seen |-> snap,
          result |-> "returned"]
    ELSE [snapshot |->
              update_from_message(
                  [TelemetrySnapshot EXCEPT !.message_count = snap.message_count], m),
          listener_updates |-> updates + 1,
          seen |-> update_from_message(
                  [TelemetrySnapshot EXCEPT !.message_count = snap.message_count], m),
          result |-> "returned"]

\* Variant: the listeners are updated before the message is folded in.
NotificationEffect_PushFirst(snap, updates, m) ==
    IF ~m.ok
    THEN [snapshot |-> snap, listener_updates |-> updates, seen |-> snap,
          result |-> "returned"]
    ELSE [snapshot |-> update_from_message(snap, m),
          listener_updates |-> updates + 1, seen |-> snap, result |-> "returned"]

\* The body of _notification_handler after parse_message returned or
\* raised: a parse failure is caught and the frame dropped; otherwise the
\* message is folded in and then the listeners are updated; seen is the
\* snapshot a listener reads while it is being updated.
NotificationEffect(snap, updates, m) ==
    IF ~m.ok
    THEN [snapshot |-> snap, listener_updates |-> updates, seen |-> snap,
          result |-> "returned"]
    ELSE [snapshot |-> update_from_message(snap, m),
          listener_updates |-> updates + 1,
          seen |-> update_from_message(snap, m), result |-> "returned"]

_notification_handler(d) ==
    /\ subscribed
    /\ snapshot.message_count < MaxMessages
    /\ LET m == parse_message(d)
           e == NotificationEffect(snapshot, listener_updates, m)
       IN  /\ data' = d
           /\ msg' = m
           /\ snapshot' = e.snapshot
           /\ listener_updates' = e.listener_updates
           /\ listener_view' = IF e.listener_updates # listener_updates
                               THEN e.seen ELSE listener_view
           /\ handler_result' = e.result
           /\ observed' = IF m.ok /\ m.field_name # NoneStr
                          THEN observed \cup {m.field_name} ELSE observed
    /\ op' = "_notification_handler"
    /\ UNCHANGED <<_client, is_connected, subscribed, manufacturer_data,
                   adv_result, stopped>>
    /\ UNCHANGED <<encVars, flowVars, diagVars, overlapVars, setupVars, connVars>>

\* _ensure_connected: found is the address lookup's outcome, connect_ok
\* and notify_ok those of client.connect() and client.start_notify().
\* Reading is_connected of a bare BLEDevice left in _client raises.
EnsureConnectedEffect(client, conn, sub, found, connect_ok, notify_ok) ==
    IF client = "device"
    THEN [client |-> client, conn |-> conn, sub |-> sub]
    ELSE IF client = "client" /\ conn
    THEN [client |-> client, conn |-> conn, sub |-> sub]
    ELSE IF ~found
    THEN [client |-> "None", conn |-> FALSE, sub |-> FALSE]
    ELSE IF ~connect_ok
    THEN [client |-> "device", conn |-> FALSE, sub |-> FALSE]
    ELSE [client |-> "client", conn |-> TRUE, sub |-> notify_ok]

\* An advertisement for which _needs_poll answers True runs _async_poll.
_async_poll(found, connect_ok, notify_ok) ==
    /\ ~stopped
    /\ _needs_poll
    /\ LET e == EnsureConnectedEffect(_client, is_connected, subscribed,
                                      found, connect_ok, notify_ok)
       IN  /\ _client' = e.client
           /\ is_connected' = e.conn
           /\ subscribed' = e.sub
    /\ op' = "_async_poll"
    /\ UNCHANGED <<snapshot, listener_updates, listener_view, data, msg, handler_result,
                   observed, manufacturer_data, adv_result, stopped>>
    /\ UNCHANGED <<encVars, flowVars, diagVars, overlapVars, setupVars, connVars>>

\* Variant: the disconnect starts a new snapshot.
OnDisconnectSnapshot_Reset(snap) == TelemetrySnapshot

\* The snapshot _on_disconnect leaves behind: it only clears _client.
OnDisconnectSnapshot(snap) == snap

\* The link of the connected client drops and bleak calls the callback.
_on_disconnect ==
    /\ _client = "client"
    /\ is_connected
    /\ _client' = "None"
    /\ is_connected' = FALSE
    /\ subscribed' = FALSE
    /\ snapshot' = OnDisconnectSnapshot(snapshot)
    /\ op' = "_on_disconnect"
    /\ UNCHANGED <<listener_updates, listener_view, data, msg, handler_result, observed,
                   manufacturer_data, adv_result, stopped>>
    /\ UNCHANGED <<encVars, flowVars, diagVars, overlapVars, setupVars, connVars>>

\* One call into Home Assistant's bluetooth component or into bleak.
BleCall(name) ==
    [call |-> name, protection_level |-> 0, char_specifier |-> "None",
     callback |-> "None"]

\* self._client.stop_notify(CHAR_NOTIFY)
StopNotifyCall == [BleCall("stop_notify") EXCEPT !.char_specifier = "CHAR_NOTIFY"]

DisconnectCall == BleCall("disconnect")

\* Variant: an exception from stop_notify ends the cleanup.
ShutdownCalls_StopAborts(client, conn, stop_ok) ==
    IF client = "client" /\ conn
    THEN IF stop_ok THEN <<StopNotifyCall, DisconnectCall>> ELSE <<StopNotifyCall>>
    ELSE <<>>

\* The calls async_shutdown makes on the client, in order: each of the two
\* is in a try of its own, so the second is made whatever the first did.
ShutdownCalls(client, conn, stop_ok) ==
    IF client = "client" /\ conn
    THEN <<StopNotifyCall, DisconnectCall>>
    ELSE <<>>

\* stop_ok and disconnect_ok: whether stop_notify and disconnect succeed;
\* both failures are swallowed.
async_shutdown(stop_ok, disconnect_ok) ==
    /\ ~stopped
    /\ ble_calls' = ShutdownCalls(_client, is_connected, stop_ok)
    /\ IF _client = "client" /\ is_connected
       THEN /\ subscribed' = (subscribed /\ ~stop_ok /\ ~disconnect_ok)
            /\ is_connected' = ~disconnect_ok
       ELSE UNCHANGED <<subscribed, is_connected>>
    /\ _client' = "None"
    /\ stopped' = TRUE
    /\ op' = "async_shutdown"
    /\ UNCHANGED <<snapshot, listener_updates, listener_view, data, msg,
                   handler_result, observed, manufacturer_data, adv_result>>
    /\ UNCHANGED <<_pin, _was_unavailable, ensure_call>>
    /\ UNCHANGED <<encVars, flowVars, diagVars, overlapVars, setupVars>>

(***************************************************************************)
(* Entry setup and unload (__init__.py)                                    *)
(***************************************************************************)

\* How many times one config entry is set up.
MaxSetups == 2

\* entry.entry_id of the config entries Home Assistant holds.
EntryIds == {"entry_1", "entry_2"}

\* SpecializedTurboCoordinator(hass, logger, address=..., pin=...) as
\* async_setup_entry builds it, with counts of what was called on it.
CoordinatorFor(entry) ==
    [address |-> entry.address, pin |-> entry.pin,
     starts |-> 0, shutdowns |-> 0, connects |-> 0]

\* A config entry before its first setup.  runtime_data "unset": the
\* attribute was never assigned.  on_unload: the callables registered with
\* entry.async_on_unload.  coordinator: the one the last setup created.
NewEntry(address, pin) ==
    [address |-> address, pin |-> pin, state |-> "not_loaded", setups |-> 0,
     runtime_data |-> "unset", on_unload |-> <<>>,
     coordinator |-> CoordinatorFor([address |-> address, pin |-> pin])]

NoSetupCall ==
    [entry |-> "None", in_range |-> FALSE, unload_ok |-> FALSE,
     result |-> FALSE, sensor_platform |-> "none"]

\* sensor.async_setup_entry, forwarded to by async_forward_entry_setups:
\* it reads entry.runtime_data and adds one sensor per description.
SensorPlatformSetup(entry) ==
    IF entry.runtime_data = "unset" THEN "AttributeError" ELSE "entities_added"

\* entry.async_on_unload(coordinator.async_start): the bound method itself
\* is registered; it is not called.
RegisteredOnUnload(coordinator) ==
    [registered |-> "coordinator.async_start", starts |-> coordinator.starts]

\* async_setup_entry never assigns entry.runtime_data.
RuntimeDataAfterSetup(entry) == entry.runtime_data

\* async_setup_entry(hass, entry); in_range: whether the bike can be
\* reached over BLE while the entry is set up.
async_setup_entry(e, in_range) ==
    /\ config_entries[e].state = "not_loaded"
    /\ config_entries[e].setups < MaxSetups
    /\ LET entry == config_entries[e]
           coordinator == CoordinatorFor(entry)
           reg == RegisteredOnUnload(coordinator)
       IN  /\ hass_data' = hass_data \cup {e}
           /\ config_entries' =
                [config_entries EXCEPT ![e] =
                    [entry EXCEPT
                        !.state = "loaded",
                        !.setups = @ + 1,
                        !.runtime_data = RuntimeDataAfterSetup(entry),
                        !.on_unload = Append(@, reg.registered),
                        !.coordinator =
                            [coordinator EXCEPT !.starts = reg.starts]]]
           /\ setup_call' =
                [NoSetupCall EXCEPT
                    !.entry = e, !.in_range = in_range, !.result = TRUE,
                    !.sensor_platform = SensorPlatformSetup(entry)]
    /\ op' = "async_setup_entry"
    /\ UNCHANGED <<coordVars, encVars, flowVars, diagVars, overlapVars, connVars>>

\* Variant: the coordinator is shut down whatever the platforms answered.
UnloadShutsDown_Always(unload_ok) == TRUE

\* if unload_ok: pop the coordinator and await its async_shutdown().
UnloadShutsDown(unload_ok) == unload_ok

\* Home Assistant calls the entry's on_unload callables once the unload
\* returned True, and forgets them.
RunOnUnload(coordinator, on_unload) ==
    [coordinator EXCEPT
        !.starts = @ + Cardinality({i \in DOMAIN on_unload :
                                       on_unload[i] = "coordinator.async_start"})]

\* async_unload_entry(hass, entry); unload_ok is what
\* hass.config_entries.async_unload_platforms answered.
async_unload_entry(e, unload_ok) ==
    /\ config_entries[e].state = "loaded"
    /\ LET entry == config_entries[e]
           down == UnloadShutsDown(unload_ok)
           shut == [entry.coordinator EXCEPT
                       !.shutdowns = IF down THEN @ + 1 ELSE @]
       IN  /\ hass_data' = IF down THEN hass_data \ {e} ELSE hass_data
           /\ config_entries' =
                [config_entries EXCEPT ![e] =
                    [entry EXCEPT
                        !.state = IF unload_ok THEN "not_loaded"
                                  ELSE "failed_unload",
                        !.on_unload = IF unload_ok THEN <<>> ELSE @,
                        !.coordinator =
                            IF unload_ok THEN RunOnUnload(shut, entry.on_unload)
                            ELSE shut]]
           /\ setup_call' =
                [NoSetupCall EXCEPT
                    !.entry = e, !.unload_ok = unload_ok, !.result = unload_ok]
    /\ op' = "async_unload_entry"
    /\ UNCHANGED <<coordVars, encVars, flowVars, diagVars, overlapVars, connVars>>

(***************************************************************************)
(* _ensure_connected, call by call (coordinator.py 85-123)                 *)
(***************************************************************************)

LookupCall == BleCall("async_ble_device_from_address")

ConnectCall == BleCall("connect")

\* client.pair(protection_level=2)
PairCall == [BleCall("pair") EXCEPT !.protection_level = 2]

\* client.start_notify(CHAR_NOTIFY, self._notification_handler)
StartNotifyCall ==
    [BleCall("start_notify") EXCEPT !.char_specifier = "CHAR_NOTIFY",
                                    !.callback = "_notification_handler"]

\* No _ensure_connected call has been made.
NoEnsureCall ==
    [found |-> FALSE, connect_ok |-> FALSE, pair_outcome |-> "none",
     notify_ok |-> FALSE, result |-> "none"]

\* What client.pair() can do.
PairOutcomes == {"paired", "NotImplementedError", "Exception"}

\* Variant: a pairing failure leaves _ensure_connected.
PairAborts_Propagate(pair_outcome) == pair_outcome # "paired"

\* try: await client.pair(...) except NotImplementedError / except
\* Exception: both are logged and swallowed.
PairAborts(pair_outcome) == FALSE

\* Variant: pairing is attempted whether or not a PIN is set.
PairAttempted_Always(pin) == TRUE

\* if self._pin is not None
PairAttempted(pin) == pin # PinNone

\* Variant: the connected client is not recognised and the lookup runs.
AlreadyConnected_Never(client, conn) == FALSE

\* if self._client and self._client.is_connected
AlreadyConnected(client, conn) == client = "client" /\ conn

\* Variant: a missing device does not end the call.
DeviceMissing_Ignored(found) == FALSE

\* if self._client is None (after the lookup)
DeviceMissing(found) == ~found

\* Variant: the subscription is started twice.
Subscriptions_Twice == <<StartNotifyCall, StartNotifyCall>>

\* await client.start_notify(CHAR_NOTIFY, self._notification_handler)
Subscriptions == <<StartNotifyCall>>

\* The calls one _ensure_connected makes, in order.
EnsureConnectedCalls(client, conn, pin, found, connect_ok, pair_outcome) ==
    IF client = "device" \/ AlreadyConnected(client, conn)
    THEN <<>>
    ELSE IF DeviceMissing(found)
    THEN <<LookupCall>>
    ELSE IF ~connect_ok
    THEN <<LookupCall, ConnectCall>>
    ELSE <<LookupCall, ConnectCall>>
         \o (IF PairAttempted(pin) THEN <<PairCall>> ELSE <<>>)
         \o (IF PairAttempted(pin) /\ PairAborts(pair_outcome)
             THEN <<>> ELSE Subscriptions)

\* How one _ensure_connected ends: is_connected of a bare BLEDevice,
\* connect() and start_notify() can raise; nothing catches them.
EnsureConnectedResult(client, conn, pin, found, connect_ok, pair_outcome, notify_ok) ==
    IF client = "device"
    THEN "raised"
    ELSE IF AlreadyConnected(client, conn) \/ DeviceMissing(found)
    THEN "returned"
    ELSE IF ~connect_ok
    THEN "raised"
    ELSE IF PairAttempted(pin) /\ PairAborts(pair_outcome)
    THEN "raised"
    ELSE IF notify_ok THEN "returned" ELSE "raised"

\* _ensure_connected with the outcomes of the calls it makes: found for
\* the address lookup, connect_ok for client.connect(), pair_outcome for
\* client.pair(), notify_ok for client.start_notify().
_ensure_connected(found, connect_ok, pair_outcome, notify_ok) ==
    /\ ~stopped
    /\ LET calls == EnsureConnectedCalls(_client, is_connected, _pin, found,
                                         connect_ok, pair_outcome)
           e == EnsureConnectedEffect(
                    _client, is_connected, subscribed, found, connect_ok,
                    notify_ok /\ StartNotifyCall \in {calls[i] : i \in DOMAIN calls})
       IN  /\ _client' = e.client
           /\ is_connected' = e.conn
           /\ subscribed' = e.sub
           /\ ble_calls' = calls
           /\ ensure_call' =
                [found |-> found, connect_ok |-> connect_ok,
                 pair_outcome |-> pair_outcome, notify_ok |-> notify_ok,
                 result |->
                    EnsureConnectedResult(_client, is_connected, _pin, found,
                                          connect_ok, pair_outcome, notify_ok)]
    /\ op' = "_ensure_connected"
    /\ UNCHANGED <<snapshot, listener_updates, listener_view, data, msg,
                   handler_result, observed, manufacturer_data, adv_result,
                   stopped>>
    /\ UNCHANGED <<_pin, _was_unavailable>>
    /\ UNCHANGED <<encVars, flowVars, diagVars, overlapVars, setupVars>>

(***************************************************************************)
(* Overlapping _ensure_connected calls (coordinator.py 85-123): each call  *)
(* is followed from one await to the next.                                 *)
(***************************************************************************)

\* The _ensure_connected calls that can be in progress at once.
Tasks == {1, 2}

\* A BleakClient a call created: connected after connect(), subscribed
\* after start_notify().
NewClient == [connected |-> FALSE, subscribed |-> FALSE]

\* The clients that deliver the bike's notifications to the handler.
Subscribers == {t \in Tasks : clients[t].connected /\ clients[t].subscribed}

\* A call starts: line 90 is evaluated, and the call is suspended at the
\* lookup unless it returned (connected client) or raised (a bare device,
\* left by another call, has no is_connected).
EnsureBegin(t) ==
    /\ tasks[t] = "idle"
    /\ tasks' = [tasks EXCEPT ![t] =
                    IF _client = "device" THEN "raised"
                    ELSE IF _client = "client" /\ is_connected THEN "returned"
                    ELSE "lookup"]
    /\ op' = "_ensure_connected"
    /\ UNCHANGED <<coordVars, clients, frame_folds>>
    /\ UNCHANGED <<encVars, flowVars, diagVars, setupVars, connVars>>

\* The lookup returns: its result is stored in _client; with a device the
\* BleakClient is created and the call is suspended at connect().
EnsureLookup(t, found) ==
    /\ tasks[t] = "lookup"
    /\ _client' = IF found THEN "device" ELSE "None"
    /\ is_connected' = FALSE
    /\ tasks' = [tasks EXCEPT ![t] = IF found THEN "connect" ELSE "returned"]
    /\ op' = "async_ble_device_from_address"
    /\ UNCHANGED <<snapshot, subscribed, listener_updates, listener_view, data,
                   msg, handler_result, observed, manufacturer_data,
                   adv_result, stopped, clients, frame_folds>>
    /\ UNCHANGED <<encVars, flowVars, diagVars, setupVars, connVars>>

\* connect() returns or raises; after it the client is stored and the call
\* goes on, without another await in between when no PIN is set, to
\* start_notify.
EnsureConnect(t, connect_ok) ==
    /\ tasks[t] = "connect"
    /\ IF connect_ok
       THEN /\ clients' = [clients EXCEPT ![t].connected = TRUE]
            /\ _client' = "client"
            /\ is_connected' = TRUE
            /\ tasks' = [tasks EXCEPT ![t] = "start_notify"]
       ELSE /\ tasks' = [tasks EXCEPT ![t] = "raised"]
            /\ UNCHANGED <<clients, _client, is_connected>>
    /\ op' = "connect"
    /\ UNCHANGED <<snapshot, subscribed, listener_updates, listener_view, data, msg,
                   handler_result, observed, manufacturer_data, adv_result,
                   stopped, frame_folds>>
    /\ UNCHANGED <<encVars, flowVars, diagVars, setupVars, connVars>>

\* start_notify() returns or raises.  The subscription is the client's,
\* whether or not _client still is that client; subscribed says that some
\* subscription delivers to the handler.
EnsureStartNotify(t, notify_ok) ==
    /\ tasks[t] = "start_notify"
    /\ clients' = [clients EXCEPT ![t].subscribed = notify_ok]
    /\ subscribed' = (notify_ok \/ subscribed)
    /\ tasks' = [tasks EXCEPT ![t] = IF notify_ok THEN "returned" ELSE "raised"]
    /\ op' = "start_notify"
    /\ UNCHANGED <<snapshot, _client, is_connected, listener_updates,
                   listener_view, data, msg, handler_result, observed,
                   manufacturer_data, adv_result, stopped, frame_folds>>
    /\ UNCHANGED <<encVars, flowVars, diagVars, setupVars, connVars>>

\* _notification_handler applied to the frame once per subscription.
RECURSIVE FoldTimes(_, _, _, _)
FoldTimes(snap, updates, m, n) ==
    IF n = 0
    THEN [snapshot |-> snap, listener_updates |-> updates, seen |-> snap,
          result |-> "none"]
    ELSE LET e == FoldTimes(snap, updates, m, n - 1)
         IN  NotificationEffect(e.snapshot, e.listener_updates, m)

\* The bike sends one frame: every subscribed client calls
\* _notification_handler with it.
BikeSendsFrame(d) ==
    /\ Subscribers # {}
    /\ snapshot.message_count < MaxMessages
    /\ LET m == parse_message(d)
           e == FoldTimes(snapshot, listener_updates, m, Cardinality(Subscribers))
       IN  /\ data' = d
           /\ msg' = m
           /\ snapshot' = e.snapshot
           /\ listener_updates' = e.listener_updates
           /\ listener_view' = IF e.listener_updates # listener_updates
                               THEN e.seen ELSE listener_view
           /\ handler_result' = e.result
           /\ observed' = IF m.ok /\ m.field_name # NoneStr
                          THEN observed \cup {m.field_name} ELSE observed
           /\ frame_folds' = e.snapshot.message_count - snapshot.message_count
    /\ op' = "_notification_handler"
    /\ UNCHANGED <<_client, is_connected, subscribed, manufacturer_data,
                   adv_result, stopped, tasks, clients>>
    /\ UNCHANGED <<encVars, flowVars, diagVars, setupVars, connVars>>

\* SpecializedTurboCoordinator.__init__
NewCoordinator ==
    /\ snapshot = TelemetrySnapshot
    /\ _client = "None"
    /\ is_connected = FALSE
    /\ subscribed = FALSE
    /\ listener_updates = 0
    /\ listener_view = TelemetrySnapshot
    /\ handler_result = "none"
    /\ observed = {}
    /\ stopped = FALSE

\* No build_request call has been made.
NoRequest ==
    /\ req_args = [origin |-> 0, channel |-> 0, payload |-> PayloadOmitted]
    /\ request = <<>>

\* No config entry and no config flow exists.
NoFlows ==
    /\ entries = <<>>
    /\ flows = <<>>
    /\ flow_call = NoCall

\* No config entry is being set up or unloaded.
NoSetup ==
    /\ config_entries = <<>>
    /\ hass_data = {}
    /\ setup_call = NoSetupCall

\* No _ensure_connected call is being followed; no PIN is configured and
\* the coordinator has no _was_unavailable attribute.
NoConnection ==
    /\ _pin = PinNone
    /\ _was_unavailable = "unset"
    /\ ble_calls = <<>>
    /\ ensure_call = NoEnsureCall

\* No _ensure_connected call is suspended and no frame was sent.
NoOverlap ==
    /\ tasks = [t \in Tasks |-> "idle"]
    /\ clients = [t \in Tasks |-> NewClient]
    /\ frame_folds = 0

\* No diagnostics have been asked for.
NoDiagnostics ==
    /\ diag_in = <<>>
    /\ diag_out = <<>>

Init ==
    /\ NewCoordinator
    /\ NoOverlap
    /\ op = "__init__"
    /\ data = <<>>
    /\ msg = FrameTooShort
    /\ manufacturer_data = <<>>
    /\ adv_result = FALSE
    /\ NoRequest
    /\ NoFlows
    /\ NoSetup
    /\ NoConnection
    /\ NoDiagnostics

Next ==
    \/ \E d \in Frames : _notification_handler(d)
    \/ \E found, connect_ok, notify_ok \in BOOLEAN :
           _async_poll(found, connect_ok, notify_ok)
    \/ _on_disconnect
    \/ \E stop_ok, disconnect_ok \in BOOLEAN : async_shutdown(stop_ok, disconnect_ok)

Spec == Init /\ [][Next]_vars

-----------------------------------------------------------------------------
(* The decoder on its own: a buffer is drawn, parse_message is applied.    *)

InitDecode ==
    /\ NewCoordinator
    /\ NoOverlap
    /\ op = "input"
    /\ data \in DecodeFrames
    /\ msg = FrameTooShort
    /\ manufacturer_data = <<>>
    /\ adv_result = FALSE
    /\ NoRequest
    /\ NoFlows
    /\ NoSetup
    /\ NoConnection
    /\ NoDiagnostics

ParseStep ==
    /\ op = "input"
    /\ msg' = parse_message(data)
    /\ op' = "parse_message"
    /\ UNCHANGED <<snapshot, _client, is_connected, subscribed, listener_updates, listener_view,
                   data, handler_result, observed, manufacturer_data, adv_result,
                   stopped>>
    /\ UNCHANGED <<encVars, flowVars, diagVars, overlapVars, setupVars, connVars>>

NextDecode == ParseStep

SpecDecode == InitDecode /\ [][NextDecode]_vars

-----------------------------------------------------------------------------
(* The matcher on its own: an advertisement's manufacturer data is drawn   *)
(* and the config flow's check is applied.                                 *)

InitAdvert ==
    /\ NewCoordinator
    /\ NoOverlap
    /\ op = "input"
    /\ data = <<>>
    /\ msg = FrameTooShort
    /\ manufacturer_data \in AdvInputs
    /\ adv_result = FALSE
    /\ NoRequest
    /\ NoFlows
    /\ NoSetup
    /\ NoConnection
    /\ NoDiagnostics

MatchStep ==
    /\ op = "input"
    /\ adv_result' = _is_specialized_service_info(manufacturer_data)
    /\ op' = "_is_specialized_service_info"
    /\ UNCHANGED <<snapshot, _client, is_connected, subscribed, listener_updates, listener_view,
                   data, msg, handler_result, observed, manufacturer_data, stopped>>
    /\ UNCHANGED <<encVars, flowVars, diagVars, overlapVars, setupVars, connVars>>

NextAdvert == MatchStep

SpecAdvert == InitAdvert /\ [][NextAdvert]_vars

-----------------------------------------------------------------------------
(* The encoder on its own: the arguments of a request are drawn,           *)
(* build_request is applied, and the bytes it returned are handed to       *)
(* parse_message as the device would echo them.                            *)

\* Origin and channel bytes of the requests built: the registry's keys, two
\* unregistered ones and the largest byte in both places.
RequestHeaders == Headers \cup {<<255, 255>>}

RequestPayloads ==
    {PayloadOmitted} \cup {Payload(b) : b \in SeqsUpTo(ValueByteSamples, MaxValueBytes)}

InitEncode ==
    /\ NewCoordinator
    /\ NoOverlap
    /\ op = "input"
    /\ data = <<>>
    /\ msg = FrameTooShort
    /\ manufacturer_data = <<>>
    /\ adv_result = FALSE
    /\ \E h \in RequestHeaders, p \in RequestPayloads :
           req_args = [origin |-> h[1], channel |-> h[2], payload |-> p]
    /\ request = <<>>
    /\ NoFlows
    /\ NoSetup
    /\ NoConnection
    /\ NoDiagnostics

BuildStep ==
    /\ op = "input"
    /\ request' = build_request(req_args.origin, req_args.channel, req_args.payload)
    /\ op' = "build_request"
    /\ UNCHANGED <<coordVars, req_args, flowVars, diagVars, overlapVars, setupVars, connVars>>

EchoStep ==
    /\ op = "build_request"
    /\ data' = request
    /\ msg' = parse_message(request)
    /\ op' = "parse_message"
    /\ UNCHANGED <<snapshot, _client, is_connected, subscribed, listener_updates, listener_view,
                   handler_result, observed, manufacturer_data, adv_result, stopped>>
    /\ UNCHANGED <<encVars, flowVars, diagVars, overlapVars, setupVars, connVars>>

NextEncode == BuildStep \/ EchoStep

SpecEncode == InitEncode /\ [][NextEncode]_vars

-----------------------------------------------------------------------------
(* The config flow on its own: flows are started and their forms           *)
(* submitted in any order.                                                 *)

\* The advertisements of bikes, for which discovery flows are started.
BikeInfos == {i \in ServiceInfos : is_specialized_advertisement(i.manufacturer_data)}

\* The flows that show the form of a step.
OpenForms(step_id) == {f \in 1 .. Len(flows) : flows[f].step = step_id}

InitFlow ==
    /\ NewCoordinator
    /\ NoOverlap
    /\ op = "__init__"
    /\ data = <<>>
    /\ msg = FrameTooShort
    /\ manufacturer_data = <<>>
    /\ adv_result = FALSE
    /\ NoRequest
    /\ NoFlows
    /\ NoSetup
    /\ NoConnection
    /\ NoDiagnostics

NextFlow ==
    \/ \E info \in BikeInfos : async_step_bluetooth(info)
    \/ \E f \in OpenForms("bluetooth_confirm"), pin \in Pins,
          outcome \in ConnectionOutcomes :
           async_step_bluetooth_confirm(f, pin, outcome)
    \/ \E discovered \in SUBSET ServiceInfos : async_step_user_init(discovered)
    \/ \E f \in OpenForms("user") :
           \E address \in flows[f]._discovered_devices, pin \in Pins,
              outcome \in ConnectionOutcomes, discovered \in SUBSET ServiceInfos :
               async_step_user(f, address, pin, outcome, discovered)
    \/ \E info \in ServiceInfos : async_step_reconfigure_init(format_mac(info.address))
    \/ \E f \in OpenForms("reconfigure"), pin \in Pins :
           async_step_reconfigure(f, pin)

SpecFlow == InitFlow /\ [][NextFlow]_vars

-----------------------------------------------------------------------------
(* The diagnostics on their own: two config entries that differ at most in *)
(* their PIN are drawn and the diagnostics of both are taken.              *)

\* entry.runtime_data: unset, or a coordinator whose snapshot is new or has
\* folded one assist-level message.
RuntimeData ==
    {[given |-> FALSE, snapshot |-> TelemetrySnapshot]}
        \cup {[given |-> TRUE, snapshot |-> s] : s \in
                {TelemetrySnapshot} \cup
                {update_from_message(TelemetrySnapshot, parse_message(f)) :
                    f \in AssistFrames}}

\* The entries the config flow creates for the address, set up or not.
DiagEntries(address) ==
    {[unique_id |-> format_mac(address), address |-> address, pin |-> p,
      runtime_data |-> r] : p \in Pins, r \in RuntimeData}

InitDiag ==
    /\ NewCoordinator
    /\ NoOverlap
    /\ op = "input"
    /\ data = <<>>
    /\ msg = FrameTooShort
    /\ manufacturer_data = <<>>
    /\ adv_result = FALSE
    /\ NoRequest
    /\ NoFlows
    /\ NoSetup
    /\ NoConnection
    /\ \E info \in BikeInfos :
           \E e1, e2 \in DiagEntries(info.address) :
               /\ e1.runtime_data = e2.runtime_data
               /\ diag_in = <<e1, e2>>
    /\ diag_out = <<>>

DiagnosticsStep ==
    /\ op = "input"
    /\ diag_out' = <<async_get_config_entry_diagnostics(diag_in[1]),
                     async_get_config_entry_diagnostics(diag_in[2])>>
    /\ op' = "async_get_config_entry_diagnostics"
    /\ UNCHANGED <<coordVars, encVars, flowVars, diag_in, overlapVars, setupVars, connVars>>

NextDiag == DiagnosticsStep

SpecDiag == InitDiag /\ [][NextDiag]_vars

(***************************************************************************)
(* SpecSetup: config entries are set up, unloaded and set up again.        *)
(***************************************************************************)

InitSetup ==
    /\ NewCoordinator
    /\ NoOverlap
    /\ op = "input"
    /\ data = <<>>
    /\ msg = FrameTooShort
    /\ manufacturer_data = <<>>
    /\ adv_result = FALSE
    /\ NoRequest
    /\ NoFlows
    /\ NoDiagnostics
    /\ NoConnection
    /\ \E pins \in [EntryIds -> Pins] :
          config_entries =
              [e \in EntryIds |->
                  NewEntry(IF e = "entry_1" THEN MOCK_ADDRESS
                           ELSE "11:22:33:44:55:66", pins[e])]
    /\ hass_data = {}
    /\ setup_call = NoSetupCall

NextSetup ==
    \/ \E e \in EntryIds, in_range \in BOOLEAN : async_setup_entry(e, in_range)
    \/ \E e \in EntryIds, unload_ok \in BOOLEAN : async_unload_entry(e, unload_ok)

SpecSetup == InitSetup /\ [][NextSetup]_vars

(***************************************************************************)
(* SpecConnect: the coordinator's connection, followed call by call.       *)
(***************************************************************************)

InitConnect ==
    /\ NewCoordinator
    /\ NoOverlap
    /\ op = "__init__"
    /\ data = <<>>
    /\ msg = FrameTooShort
    /\ manufacturer_data = <<>>
    /\ adv_result = FALSE
    /\ NoRequest
    /\ NoFlows
    /\ NoSetup
    /\ NoDiagnostics
    /\ _pin \in Pins
    /\ _was_unavailable = "unset"
    /\ ble_calls = <<>>
    /\ ensure_call = NoEnsureCall

NextConnect ==
    \/ \E found, connect_ok, notify_ok \in BOOLEAN :
          \E pair_outcome \in PairOutcomes :
              _ensure_connected(found, connect_ok, pair_outcome, notify_ok)
    \/ _on_disconnect
    \/ \E stop_ok, disconnect_ok \in BOOLEAN :
          async_shutdown(stop_ok, disconnect_ok)

SpecConnect == InitConnect /\ [][NextConnect]_vars

(***************************************************************************)
(* SpecOverlap: two _ensure_connected calls of one coordinator interleave  *)
(* at their awaits while the bike sends frames.                            *)
(***************************************************************************)

\* A frame with a recognized field, one with an unknown field, a cut one.
OverlapFrames == {<<0, 12, 85>>, <<3, 0, 66>>, <<0>>}

InitOverlap ==
    /\ NewCoordinator
    /\ NoOverlap
    /\ op = "__init__"
    /\ data = <<>>
    /\ msg = FrameTooShort
    /\ manufacturer_data = <<>>
    /\ adv_result = FALSE
    /\ NoRequest
    /\ NoFlows
    /\ NoSetup
    /\ NoDiagnostics
    /\ NoConnection

NextOverlap ==
    \/ \E t \in Tasks : EnsureBegin(t)
    \/ \E t \in Tasks, found \in BOOLEAN : EnsureLookup(t, found)
    \/ \E t \in Tasks, connect_ok \in BOOLEAN : EnsureConnect(t, connect_ok)
    \/ \E t \in Tasks, notify_ok \in BOOLEAN : EnsureStartNotify(t, notify_ok)
    \/ \E d \in OverlapFrames : BikeSendsFrame(d)

SpecOverlap == InitOverlap /\ [][NextOverlap]_vars

-----------------------------------------------------------------------------
(* Properties.                                                             *)

Groups == {"battery", "motor", "settings"}

Handled == op = "_notification_handler"

Parsed == op = "parse_message"

\* C1: message_count starts at 0; a notification that decodes (recognized
\* field or not) raises it by exactly 1; no other step of the coordinator,
\* disconnect and reconnect included, changes it, and no step lowers it.
C1_MessageCountOnlyCountsUp ==
    /\ [](op = "__init__" => snapshot.message_count = 0)
    /\ [][/\ snapshot'.message_count >= snapshot.message_count
          /\ (op' = "_notification_handler" /\ msg'.ok)
                => snapshot'.message_count = snapshot.message_count + 1
          /\ ~(op' = "_notification_handler" /\ msg'.ok)
                => snapshot'.message_count = snapshot.message_count]_vars

\* An unrecognized message was counted after a recognized one, then the
\* link dropped.
C1_Witness ==
    /\ op = "_on_disconnect"
    /\ snapshot.message_count = 2
    /\ msg.ok
    /\ msg.field_name = NoneStr
    /\ observed # {}

\* C2: a notification whose bytes do not decode is dropped: the handler
\* returns, and message_count, every field and the listeners' update count
\* are what they were.
C2_MalformedFrameDiscarded ==
    [][(op' = "_notification_handler" /\ ~msg'.ok)
          => /\ handler_result' = "returned"
             /\ snapshot' = snapshot
             /\ listener_updates' = listener_updates]_vars

\* [0x00] arrives after the charge was stored.
C2_Witness ==
    /\ Handled
    /\ data = <<0>>
    /\ ~msg.ok
    /\ snapshot.message_count = 1
    /\ snapshot.battery.charge_pct = [kind |-> "num", n |-> 85, d |-> 1]
    /\ listener_updates = 1

\* C3: a frame of at least 3 bytes whose (origin, channel) is not in the
\* registry decodes with field_name absent, advances message_count by 1
\* and changes no battery, motor or settings field.
C3_UnknownFieldOnlyCounted ==
    [][(/\ op' = "_notification_handler"
        /\ Len(data') >= 3
        /\ get_field_def(data'[1], data'[2]) = NoFieldDef)
          => /\ msg'.ok
             /\ msg'.field_name = NoneStr
             /\ snapshot'.message_count = snapshot.message_count + 1
             /\ \A g \in Groups : snapshot'[g] = snapshot[g]]_vars

\* [0x03, 0x00, 0x42] arrives after a speed was stored.
C3_Witness ==
    /\ Handled
    /\ data = <<3, 0, 66>>
    /\ snapshot.message_count = 2
    /\ snapshot.motor.speed_kmh = [kind |-> "num", n |-> 51, d |-> 2]

\* C4: folding a message that names field F leaves every other field of
\* the three states as it was.
C4_OnlyNamedFieldWritten ==
    [][(op' = "_notification_handler" /\ msg'.ok /\ msg'.field_name # NoneStr)
          => \A g \in Groups : \A f \in DOMAIN snapshot[g] :
                 f # msg'.field_name => snapshot'[g][f] = snapshot[g][f]]_vars

\* A speed was folded in while the charge was already known.
C4_Witness ==
    /\ Handled
    /\ msg.ok
    /\ msg.field_name = "speed_kmh"
    /\ snapshot.motor.speed_kmh # NoneValue
    /\ snapshot.battery.charge_pct # NoneValue

\* C5: a new coordinator's snapshot has every field None and message_count
\* 0; a field is not None only if a decoded message naming it was folded
\* in; a sensor whose field was not observed has value None.
C5_AbsentUntilObserved ==
    /\ op = "__init__"
          => /\ snapshot.message_count = 0
             /\ \A g \in Groups : \A f \in DOMAIN snapshot[g] :
                    snapshot[g][f] = [kind |-> "none", n |-> 0, d |-> 1]
    /\ \A g \in Groups : \A f \in DOMAIN snapshot[g] :
           snapshot[g][f] # NoneValue => f \in observed
    /\ \A key \in SENSOR_DESCRIPTIONS :
           SensorField[key][2] \notin observed => native_value(key) = NoneValue

\* The charge was observed and its sensor shows it; the speed was not.
C5_Witness ==
    /\ observed = {"charge_pct"}
    /\ native_value("battery_charge_percent") = [kind |-> "num", n |-> 85, d |-> 1]
    /\ native_value("speed") = NoneValue
    /\ native_value("assist_level") = NoneValue

\* C6: parse_message fails with FrameTooShort on every buffer of length
\* 0, 1 or 2.
C6_ShortBufferFails ==
    (Parsed /\ Len(data) < 3) => (~msg.ok /\ msg.error = "FrameTooShort")

\* A two-byte buffer was refused.
C6_Witness ==
    /\ Parsed
    /\ Len(data) = 2
    /\ ~msg.ok

\* C7: for a registry entry of width w, parse_message fails with
\* FrameTooShort on a buffer of at least 3 but fewer than 2 + w bytes, and
\* a value it returns for a recognized field was read from w bytes.
C7_ShortValueFails ==
    /\ \A k \in RegistryKeys :
           (/\ Parsed
            /\ Len(data) >= 3
            /\ Len(data) < 2 + get_field_def(k[1], k[2]).byte_width
            /\ <<data[1], data[2]>> = k)
              => (~msg.ok /\ msg.error = "FrameTooShort")
    /\ (Parsed /\ msg.ok /\ msg.field_name # NoneStr)
          => Len(msg.raw_bytes) = get_field_def(msg.origin, msg.channel).byte_width

\* The 3-byte speed frame [0x01, 0x02, 0xFF] was refused.
C7_Witness ==
    /\ Parsed
    /\ data = <<1, 2, 255>>
    /\ ~msg.ok

\* The integer in value bytes 1..w of frame d, summed byte by byte.
RECURSIVE ValueSum(_, _, _, _)
ValueSum(d, w, i, little) ==
    IF i > w THEN 0
    ELSE d[2 + i] * Pow256(IF little THEN i - 1 ELSE w - i)
            + ValueSum(d, w, i + 1, little)

ExpectedRaw(d, def) ==
    LET u == ValueSum(d, def.byte_width, 1, def.endianness = "little")
        half == Pow256(def.byte_width) \div 2
    IN  IF def.signed /\ u >= half THEN u - 2 * half ELSE u

\* C8: for a frame of a registry entry with at least byte_width value
\* bytes, the parsed message has the definition's field_name and unit and a
\* converted_value equal to the declared-order, declared-sign integer
\* times the scale; [0x00, 0x0C, 0x55] sets charge_pct to 85 and
\* [0x01, 0x02, 0xFF, 0x00] sets speed_kmh to 25.5.
C8_DecodedValue ==
    /\ (/\ Handled
        /\ Len(data) >= 3
        /\ get_field_def(data[1], data[2]) # NoFieldDef
        /\ Len(data) >= 2 + get_field_def(data[1], data[2]).byte_width)
          => LET def == get_field_def(data[1], data[2])
                 v == msg.converted_value
             IN  /\ msg.ok
                 /\ msg.field_name = def.name
                 /\ msg.unit = def.unit
                 /\ v # NoneValue
                 /\ v.n * def.scale_d = ExpectedRaw(data, def) * def.scale_n * v.d
    /\ (Handled /\ data = <<0, 12, 85>>)
          => snapshot.battery.charge_pct = [kind |-> "num", n |-> 85, d |-> 1]
    /\ (Handled /\ data = <<1, 2, 255, 0>>)
          => snapshot.motor.speed_kmh = [kind |-> "num", n |-> 51, d |-> 2]

\* Both frames of the claim were folded in, the speed frame last.
C8_Witness ==
    /\ Handled
    /\ data = <<1, 2, 255, 0>>
    /\ snapshot.message_count = 2
    /\ snapshot.battery.charge_pct = [kind |-> "num", n |-> 85, d |-> 1]
    /\ snapshot.motor.speed_kmh = [kind |-> "num", n |-> 51, d |-> 2]

C10_AdvertisementMatch ==
    op = "_is_specialized_service_info"
      => /\ adv_result \in BOOLEAN
         /\ adv_result
              <=> /\ 89 \in DOMAIN manufacturer_data
                  /\ Len(manufacturer_data[89]) >= 5
                  /\ \A i \in 1 .. 5 :
                         manufacturer_data[89][i] = <<84, 85, 82, 66, 79>>[i]

\* {0x0059: b"TURBOHMItest1234"} was accepted.
C10_Witness ==
    /\ op = "_is_specialized_service_info"
    /\ adv_result
    /\ DOMAIN manufacturer_data = {89}
    /\ manufacturer_data[89] =
           <<84, 85, 82, 66, 79, 72, 77, 73, 116, 101, 115, 116, 49, 50, 51, 52>>

\* C11: build_request(origin, channel, payload) returns the byte origin, the
\* byte channel and then the payload's bytes in their order and nothing
\* else (the two header bytes alone when the payload is omitted), so that
\* bytes 0 and 1 of what it returned read back as the same origin and
\* channel, also through parse_message when a value byte follows.
C11_RequestLayout ==
    op \in {"build_request", "parse_message"} =>
        LET p == IF req_args.payload.given THEN req_args.payload.bytes ELSE <<>>
        IN  /\ Len(request) = 2 + Len(p)
            /\ request[1] = req_args.origin
            /\ request[2] = req_args.channel
            /\ \A i \in 1 .. Len(p) : request[2 + i] = p[i]
            /\ (op = "parse_message" /\ msg.ok) =>
                   /\ msg.origin = req_args.origin
                   /\ msg.channel = req_args.channel

C11_Witness ==
    /\ op = "parse_message"
    /\ msg.ok
    /\ req_args.origin # req_args.channel
    /\ req_args.payload.given
    /\ Len(req_args.payload.bytes) = 2
    /\ req_args.payload.bytes[1] # req_args.payload.bytes[2]

\* The decimal numeral of a natural number, digit by digit.
Digit(i) ==
    CASE i = 0 -> "0" [] i = 1 -> "1" [] i = 2 -> "2" [] i = 3 -> "3"
      [] i = 4 -> "4" [] i = 5 -> "5" [] i = 6 -> "6" [] i = 7 -> "7"
      [] i = 8 -> "8" [] i = 9 -> "9"

RECURSIVE Decimal(_)
Decimal(i) == IF i < 10 THEN Digit(i) ELSE Decimal(i \div 10) \o Digit(i % 10)

\* C12: an assist-level message never fails to decode and leaves in
\* snapshot.motor.assist_level the symbolic level when its raw value is 0
\* (Off), 1 (Eco), 2 (Trail) or 3 (Turbo) and the bare raw integer otherwise;
\* the assist-level sensor's value is None while no level was observed, the
\* capitalized name of a symbolic level, and the decimal string of a raw one.
C12_AssistLevel ==
    /\ (Handled /\ Len(data) >= 3 /\ data[1] = SENDER_MOTOR /\ data[2] = 5) =>
           /\ msg.ok
           /\ handler_result = "returned"
           /\ snapshot.motor.assist_level =
                  IF data[3] \in {0, 1, 2, 3}
                  THEN [kind |-> "known", n |-> data[3], d |-> 1]
                  ELSE [kind |-> "raw", n |-> data[3], d |-> 1]
    /\ LET level == snapshot.motor.assist_level
           name == native_value("assist_level")
       IN  /\ level = NoneValue => name = NoneValue
           /\ level.kind = "known" =>
                  name = Str(CASE level.n = 0 -> "Off" [] level.n = 1 -> "Eco"
                               [] level.n = 2 -> "Trail" [] level.n = 3 -> "Turbo")
           /\ level.kind = "raw" => name = Str(Decimal(level.n))

\* Two assist-level messages were folded, the last with a raw value that is
\* no level: the sensor shows its decimal string.
C12_Witness ==
    /\ Handled
    /\ data = <<SENDER_MOTOR, 5, 85>>
    /\ snapshot.motor.assist_level.kind = "raw"
    /\ native_value("assist_level") = Str("85")
    /\ snapshot.message_count = 2

\* The coordinator holds a BleakClient whose is_connected is true.
HasConnectedClient == _client = "client" /\ is_connected

\* C13: _needs_poll returns True exactly when the coordinator has no
\* connected client (no client at all, or one whose is_connected is false)
\* and False when a connected client exists, whatever message_count is.
C13_NeedsPollFollowsClient == _needs_poll <=> ~HasConnectedClient

\* C14: once at least one message was received and the disconnect callback
\* has fired, _needs_poll returns True, so that the next advertisement
\* schedules a poll that reconnects and resubscribes.
C14_NeedsPollAfterDisconnect ==
    (op = "_on_disconnect" /\ snapshot.message_count >= 1) => _needs_poll

\* A step that may create an entry has been called with user_input.
Submitted(call, o) ==
    /\ o \in {"async_step_bluetooth_confirm", "async_step_user"}
    /\ call.user_input

FailedOutcomes == {"no_device", "BleakError", "TimeoutError"}

\* C15: no flow creates a second config entry for a device.  The bluetooth
\* discovery step and a submission of the user step both abort with reason
\* already_configured when the formatted MAC of the address is the unique id
\* of an existing entry, and no two entries share a formatted MAC.
C15_NoSecondEntry ==
    [][/\ ((\/ op' = "async_step_bluetooth"
             \/ (op' = "async_step_user" /\ flow_call'.user_input))
            /\ format_mac(flow_call'.address) \in
                   {entries[i].unique_id : i \in 1 .. Len(entries)})
           => /\ flow_call'.type = "abort"
              /\ flow_call'.reason = "already_configured"
              /\ entries' = entries
       /\ \A i, j \in 1 .. Len(entries') :
              format_mac(entries'[i].address) = format_mac(entries'[j].address)
                  => i = j
       /\ \A i \in 1 .. Len(entries') :
              entries'[i].unique_id = format_mac(entries'[i].address)]_vars

\* The user step's form was submitted for a device that got its entry from
\* another flow after the form was shown.
C15_Witness ==
    /\ op = "async_step_user"
    /\ flow_call.user_input
    /\ flow_call.type = "abort"
    /\ flow_call.reason = "already_configured"
    /\ \E i \in 1 .. Len(entries) : entries[i].address = flow_call.address

\* C16: in the bluetooth_confirm and user steps an entry is created only by
\* a submission whose connection test succeeded.  When the test fails
\* (device not found, BleakError, TimeoutError) no entry is created and the
\* same form is shown again with errors {base: cannot_connect}.
C16_EntryOnlyAfterConnection ==
    [][/\ (entries' # entries /\ op' # "async_step_reconfigure")
           => /\ Submitted(flow_call', op')
              /\ flow_call'.outcome = "connected"
              /\ flow_call'.type = "create_entry"
       /\ (Submitted(flow_call', op') /\ flow_call'.outcome \in FailedOutcomes)
           => /\ entries' = entries
              /\ flow_call'.type = "form"
              /\ flow_call'.reason = flows[flow_call'.flow].step
              /\ flows'[flow_call'.flow].step = flows[flow_call'.flow].step
              /\ flow_call'.errors = "cannot_connect"
              /\ flows'[flow_call'.flow].errors = "cannot_connect"]_vars

\* A submission of the user step failed with BleakError.
C16_Witness ==
    /\ op = "async_step_user"
    /\ flow_call.user_input
    /\ flow_call.outcome = "BleakError"
    /\ flow_call.type = "form"
    /\ flow_call.errors = "cannot_connect"
    /\ entries = <<>>

\* C17: cannot_connect does not end the flow.  A failed submission of
\* bluetooth_confirm leaves the form of that step open, and a later
\* submission of a form showing cannot_connect whose connection test
\* succeeds creates the entry for the discovered address.
C17_RetryAfterCannotConnect ==
    [][op' = "async_step_bluetooth_confirm" =>
          LET f == flow_call'.flow
          IN  /\ flow_call'.outcome \in FailedOutcomes =>
                     /\ flows'[f].step = "bluetooth_confirm"
                     /\ flows'[f]._discovery_info = flows[f]._discovery_info
              /\ (flows[f].errors = "cannot_connect"
                     /\ flow_call'.outcome = "connected")
                  => /\ flow_call'.type = "create_entry"
                     /\ \E i \in 1 .. Len(entries') :
                            /\ entries'[i].address = flows[f]._discovery_info
                            /\ entries'[i].pin = flow_call'.pin]_vars

\* The entry was created by submitting a bluetooth_confirm form that showed
\* cannot_connect.
C17_Witness ==
    /\ op = "async_step_bluetooth_confirm"
    /\ flow_call.shown_errors = "cannot_connect"
    /\ flow_call.type = "create_entry"
    /\ \E i \in 1 .. Len(entries) :
           entries[i].address = flow_call.address /\ entries[i].pin = flow_call.pin

\* The discovered addresses whose advertisement is_specialized_advertisement
\* accepts.
AcceptedAddresses(addresses) ==
    {i.address : i \in {j \in ServiceInfos :
        /\ j.address \in addresses
        /\ is_specialized_advertisement(j.manufacturer_data)}}

UserStepEntered == op = "async_step_user" /\ ~flow_call.user_input

C19_ReconfigureChangesOnlyPin ==
    [][(op' = "async_step_reconfigure" /\ flow_call'.user_input) =>
          LET f == flow_call'.flow
          IN  /\ flow_call'.type = "abort"
              /\ flow_call'.reason = "reconfigure_successful"
              /\ flows'[f].step = "done"
              /\ flow_call'.outcome = "none"
              /\ Len(entries') = Len(entries)
              /\ \A i \in 1 .. Len(entries) :
                     IF entries[i].unique_id = flows[f].entry_id
                     THEN /\ entries'[i].pin = flow_call'.pin
                          /\ entries'[i].address = entries[i].address
                          /\ entries'[i].unique_id = entries[i].unique_id
                     ELSE entries'[i] = entries[i]]_vars

\* The reconfigure form was submitted without a PIN and the entry has none.
C19_Witness ==
    /\ op = "async_step_reconfigure"
    /\ flow_call.user_input
    /\ flow_call.pin = PinNone
    /\ \E i \in 1 .. Len(entries) :
           /\ entries[i].unique_id = flow_call.address
           /\ entries[i].address = MOCK_ADDRESS
           /\ entries[i].pin = PinNone

Diagnosed == op = "async_get_config_entry_diagnostics" /\ diag_out[1].ok

\* The entry data shown by the diagnostics of the k-th entry.
ShownData(k) == diag_out[k].entry.items["data"].items

\* C20, as stated: the diagnostics never contain the pairing PIN; the PIN in
\* the entry data is replaced by the redaction marker while the address is
\* left as it is, so that two entries that differ only in their PIN have
\* identical diagnostics.
C20_PinRedactedAlike ==
    Diagnosed =>
        /\ \A k \in {1, 2} :
               /\ ShownData(k)[CONF_PIN].kind # "int"
               /\ ShownData(k)[CONF_ADDRESS] = [kind |-> "str", s |-> diag_in[k].address]
        /\ diag_out[1] = diag_out[2]

\* C20, amended: the diagnostics never contain the pairing PIN; a PIN that is
\* set is replaced by the redaction marker, an unset one (None) is shown as
\* None, and the address is left as it is, so that two entries that differ
\* only in the value of a PIN both have set, or that both have none, have
\* identical diagnostics.
C20_SetPinRedacted ==
    Diagnosed =>
        /\ \A k \in {1, 2} :
               /\ ShownData(k)[CONF_PIN] =
                      IF diag_in[k].pin = PinNone THEN PinNone
                      ELSE [kind |-> "str", s |-> "**REDACTED**"]
               /\ ShownData(k)[CONF_ADDRESS] = [kind |-> "str", s |-> diag_in[k].address]
        /\ ((diag_in[1].pin = PinNone) <=> (diag_in[2].pin = PinNone))
               => diag_out[1] = diag_out[2]

\* Two entries with different PINs, of a coordinator that has counted a
\* message, have the same diagnostics.
C20_Witness ==
    /\ Diagnosed
    /\ diag_in[1].pin = PinOf(1234)
    /\ diag_in[2].pin = PinOf(5678)
    /\ diag_out[1] = diag_out[2]
    /\ diag_out[1].snapshot.message_count = 1
    /\ ShownData(1)[CONF_PIN] = REDACTED

(***************************************************************************)
(* Entry setup and unload                                                  *)
(***************************************************************************)

\* The last step was async_setup_entry of entry e and it returned True.
SetUp(e) ==
    /\ op = "async_setup_entry"
    /\ setup_call.entry = e
    /\ setup_call.result

\* C21: after async_setup_entry returned True, entry.runtime_data is the
\* coordinator it created, so that the sensor platform setup, which reads
\* it from there, adds its entities.
C21_RuntimeDataHoldsCoordinator ==
    \A e \in DOMAIN config_entries :
        SetUp(e) =>
            /\ config_entries[e].runtime_data = "coordinator"
            /\ setup_call.sensor_platform = "entities_added"

\* C22: when async_setup_entry has returned True, whether or not the bike
\* was in range, the coordinator was started once, the callable registered
\* to run on unload is the cancel callback that async_start returned, and
\* no connection was attempted.
C22_StartedDuringSetup ==
    \A e \in DOMAIN config_entries :
        SetUp(e) =>
            /\ config_entries[e].coordinator.starts = 1
            /\ config_entries[e].on_unload = <<"cancel_callback">>
            /\ config_entries[e].coordinator.connects = 0

\* C23: every async_unload_entry returns what the platform unload answered;
\* when that is True the coordinator's async_shutdown was called exactly
\* once and the coordinator is no longer registered, and when it is False
\* async_shutdown was not called and the coordinator is still registered.
C23_ShutdownIffUnloaded ==
    [][op' = "async_unload_entry" =>
        LET e == setup_call'.entry
            before == config_entries[e].coordinator
            after == config_entries'[e].coordinator
        IN  /\ e \in hass_data
            /\ setup_call'.result = setup_call'.unload_ok
            /\ \A other \in DOMAIN config_entries \ {e} :
                   config_entries'[other] = config_entries[other]
            /\ IF setup_call'.unload_ok
               THEN /\ after.shutdowns = before.shutdowns + 1
                    /\ hass_data' = hass_data \ {e}
               ELSE /\ after = before
                    /\ hass_data' = hass_data]_vars

\* One entry was unloaded and its coordinator shut down once, while the
\* other entry's platforms did not unload and its coordinator stays.
C23_Witness ==
    /\ op = "async_unload_entry"
    /\ ~setup_call.result
    /\ setup_call.entry \in hass_data
    /\ config_entries[setup_call.entry].coordinator.shutdowns = 0
    /\ \E e \in DOMAIN config_entries :
           /\ e \notin hass_data
           /\ config_entries[e].state = "not_loaded"
           /\ config_entries[e].coordinator.shutdowns = 1

(***************************************************************************)
(* Notifications and the coordinator's listeners                           *)
(***************************************************************************)

\* C24: every notification that decodes, with a recognized field or not,
\* updates the listeners exactly once, after the message was folded into
\* the snapshot: what a listener reads during the update is the new
\* snapshot, with the message's value and the message_count one higher.
C24_OnePushAfterUpdate ==
    [][(op' = "_notification_handler" /\ msg'.ok) =>
        /\ listener_updates' = listener_updates + 1
        /\ snapshot' = update_from_message(snapshot, msg')
        /\ listener_view' = snapshot'
        /\ listener_view'.message_count = snapshot.message_count + 1]_vars

\* A message without a recognized field has just been pushed, after an
\* earlier recognized one, and the listeners read the second count.
C24_Witness ==
    /\ op = "_notification_handler"
    /\ msg.ok
    /\ msg.field_name = NoneStr
    /\ observed # {}
    /\ listener_updates = 2
    /\ listener_view = snapshot
    /\ listener_view.message_count = 2

(***************************************************************************)
(* _ensure_connected                                                       *)
(***************************************************************************)

\* The calls named name among the calls of the last _ensure_connected.
CallsNamed(calls, name) == {i \in DOMAIN calls : calls[i].call = name}

\* C25: an _ensure_connected that finds a connected client has no effect:
\* it returns having made no lookup, connect, pair or start_notify call,
\* and _client, its connection and its subscription are as before.
C25_ConnectedIsNoOp ==
    [][(op' = "_ensure_connected" /\ _client = "client" /\ is_connected) =>
        /\ ble_calls' = <<>>
        /\ ensure_call'.result = "returned"
        /\ UNCHANGED <<coordVars, _pin, _was_unavailable>>]_vars

\* _ensure_connected has just returned without a call although the lookup,
\* the connection and the pairing with the configured PIN would have worked.
C25_Witness ==
    /\ op = "_ensure_connected"
    /\ _client = "client"
    /\ is_connected
    /\ subscribed
    /\ _pin # PinNone
    /\ ensure_call.found
    /\ ensure_call.connect_ok
    /\ ble_calls = <<>>
    /\ ensure_call.result = "returned"

\* _ensure_connected gets as far as the address lookup: the coordinator
\* holds nothing, or a client that is no longer connected.
LooksUp == _client = "None" \/ (_client = "client" /\ ~is_connected)

\* The position of the only call named name (0 when there is none or more
\* than one).
OnlyCall(calls, name) ==
    IF Cardinality(CallsNamed(calls, name)) = 1
    THEN CHOOSE i \in CallsNamed(calls, name) : TRUE
    ELSE 0

\* C26: when _ensure_connected finds no connected client and the lookup
\* finds the device, it calls connect once and, connect having succeeded,
\* _client is the connected client and start_notify was called exactly
\* once, for CHAR_NOTIFY with _notification_handler, after the connect;
\* the subscription is then in place unless start_notify itself raised.
C26_ConnectsAndSubscribesOnce ==
    [][(op' = "_ensure_connected" /\ LooksUp /\ ensure_call'.found) =>
        /\ OnlyCall(ble_calls', "async_ble_device_from_address") = 1
        /\ OnlyCall(ble_calls', "connect") = 2
        /\ ensure_call'.connect_ok =>
             /\ _client' = "client"
             /\ is_connected'
             /\ OnlyCall(ble_calls', "start_notify") = Len(ble_calls')
             /\ ble_calls'[Len(ble_calls')] = StartNotifyCall
             /\ subscribed' = ensure_call'.notify_ok
             /\ ensure_call'.notify_ok => ensure_call'.result = "returned"]_vars

\* A coordinator without a PIN has connected and subscribed with exactly
\* the lookup, the connect and one start_notify.
C26_Witness ==
    /\ op = "_ensure_connected"
    /\ _pin = PinNone
    /\ ble_calls = <<LookupCall, ConnectCall, StartNotifyCall>>
    /\ ensure_call.result = "returned"
    /\ _client = "client"
    /\ is_connected
    /\ subscribed

\* C27: when the lookup of _ensure_connected finds no device, the call
\* returns normally, _client is None, and the lookup is the only call
\* made: no connect, no pair, no start_notify.
C27_DeviceNotFound ==
    [][(op' = "_ensure_connected" /\ LooksUp /\ ~ensure_call'.found) =>
        /\ ensure_call'.result = "returned"
        /\ _client' = "None"
        /\ ~is_connected'
        /\ ~subscribed'
        /\ ble_calls' = <<LookupCall>>]_vars

\* A coordinator with a PIN did not find its device, while a connection,
\* a pairing and a subscription would all have worked.
C27_Witness ==
    /\ op = "_ensure_connected"
    /\ _pin # PinNone
    /\ ~ensure_call.found
    /\ ensure_call.connect_ok
    /\ ensure_call.pair_outcome = "paired"
    /\ ensure_call.notify_ok
    /\ ble_calls = <<LookupCall>>
    /\ _client = "None"
    /\ ensure_call.result = "returned"

\* C28: the coordinator's _was_unavailable flag is True after an
\* _ensure_connected that did not find the device and after _on_disconnect,
\* which also leaves _client None, and False after an _ensure_connected
\* that connected.
C28_UnavailableFlag ==
    /\ (op = "_ensure_connected" /\ ble_calls = <<LookupCall>>)
           => _was_unavailable = "True"
    /\ op = "_on_disconnect"
           => (_was_unavailable = "True" /\ _client = "None")
    /\ (op = "_ensure_connected" /\ CallsNamed(ble_calls, "connect") # {}
           /\ ensure_call.connect_ok)
           => _was_unavailable = "False"

\* C29: an _ensure_connected that connects calls pair exactly once, with
\* protection_level 2, after connect and before start_notify, when a PIN is
\* configured, and does not call pair when none is; an _ensure_connected
\* that does not connect never calls pair.
C29_PairsIffPin ==
    [][op' = "_ensure_connected" =>
        LET calls == ble_calls'
            connected == LooksUp /\ ensure_call'.found /\ ensure_call'.connect_ok
        IN  IF connected /\ _pin # PinNone
            THEN /\ OnlyCall(calls, "pair") # 0
                 /\ calls[OnlyCall(calls, "pair")] = PairCall
                 /\ OnlyCall(calls, "connect") # 0
                 /\ OnlyCall(calls, "connect") < OnlyCall(calls, "pair")
                 /\ \A i \in CallsNamed(calls, "start_notify") :
                        OnlyCall(calls, "pair") < i
            ELSE CallsNamed(calls, "pair") = {}]_vars

\* With PIN 1234 the calls were lookup, connect, pair with protection
\* level 2 and start_notify, in this order.
C29_Witness ==
    /\ op = "_ensure_connected"
    /\ _pin = PinOf(1234)
    /\ ensure_call.pair_outcome = "paired"
    /\ ble_calls = <<LookupCall, ConnectCall, PairCall, StartNotifyCall>>
    /\ ble_calls[3].protection_level = 2
    /\ subscribed

\* C30: when pair fails, with NotImplementedError or with another
\* exception, _ensure_connected goes on: the connected client stays in
\* _client, start_notify is called exactly once after the pairing attempt,
\* and the call returns normally unless start_notify itself raised.
C30_PairingFailureTolerated ==
    [][(/\ op' = "_ensure_connected"
        /\ LooksUp
        /\ _pin # PinNone
        /\ ensure_call'.found
        /\ ensure_call'.connect_ok
        /\ ensure_call'.pair_outcome \in {"NotImplementedError", "Exception"}) =>
        /\ _client' = "client"
        /\ is_connected'
        /\ ble_calls' = <<LookupCall, ConnectCall, PairCall, StartNotifyCall>>
        /\ subscribed' = ensure_call'.notify_ok
        /\ ensure_call'.result =
               IF ensure_call'.notify_ok THEN "returned" ELSE "raised"]_vars

\* pair raised an exception other than NotImplementedError, and the client
\* is stored, connected and subscribed all the same.
C30_Witness ==
    /\ op = "_ensure_connected"
    /\ _pin = PinOf(5678)
    /\ ensure_call.pair_outcome = "Exception"
    /\ ensure_call.result = "returned"
    /\ Cardinality(CallsNamed(ble_calls, "pair")) = 1
    /\ Cardinality(CallsNamed(ble_calls, "start_notify")) = 1
    /\ _client = "client"
    /\ subscribed

(***************************************************************************)
(* async_shutdown                                                          *)
(***************************************************************************)

\* C31: every async_shutdown completes with _client None, whatever _client
\* was; on a connected client it calls stop_notify(CHAR_NOTIFY) and then
\* disconnect, both of them whether or not either raises, and on anything
\* else it makes no call.
C31_ShutdownClearsClient ==
    [][op' = "async_shutdown" =>
        /\ _client' = "None"
        /\ stopped'
        /\ ble_calls' = IF _client = "client" /\ is_connected
                        THEN <<StopNotifyCall, DisconnectCall>>
                        ELSE <<>>]_vars

\* A shutdown in which stop_notify and disconnect both raised: the link and
\* the subscription are still up, both calls were made, _client is None.
C31_Witness ==
    /\ op = "async_shutdown"
    /\ stopped
    /\ _client = "None"
    /\ is_connected
    /\ subscribed
    /\ ble_calls = <<StopNotifyCall, DisconnectCall>>

(***************************************************************************)
(* The snapshot over a sequence of notifications                           *)
(***************************************************************************)

\* C32: last write wins.  In every step each snapshot field either is
\* overwritten with the converted value of the message just decoded, when
\* that message names the field, or keeps its value: a message for another
\* field, a message with an unknown field, a frame that does not decode, a
\* poll, a disconnect and a shutdown leave it as it was.  So each field
\* holds the value of the most recent decoded message that named it.
C32_LastWriteWins ==
    [][\A g \in Groups : \A f \in DOMAIN snapshot[g] :
           snapshot'[g][f] =
               IF /\ op' = "_notification_handler"
                  /\ msg'.ok
                  /\ msg'.field_name = f
               THEN msg'.converted_value
               ELSE snapshot[g][f]]_vars

\* Two charge messages were folded in, and the field holds the value of
\* the second, a value other than 85.
C32_Witness ==
    /\ Handled
    /\ msg.ok
    /\ msg.field_name = "charge_pct"
    /\ observed = {"charge_pct"}
    /\ snapshot.message_count = 2
    /\ snapshot.battery.charge_pct = msg.converted_value
    /\ snapshot.battery.charge_pct # [kind |-> "num", n |-> 85, d |-> 1]

(***************************************************************************)
(* Overlapping connection attempts                                         *)
(***************************************************************************)

\* C33: when two _ensure_connected calls overlap, at most one client ends
\* up connected and subscribed, and a frame the bike sends is folded into
\* the snapshot at most once (message_count grows by 1, not 2).
C33_OverlapOneSubscription ==
    /\ Cardinality(Subscribers) <= 1
    /\ op = "_notification_handler" => frame_folds <= 1

(***************************************************************************)
(* What _ensure_connected leaves in _client                                *)
(***************************************************************************)

\* C34: between coordinator operations _client is None or a BleakClient,
\* never the bare device the address lookup returned, also after connect()
\* raised; so no later _ensure_connected fails on reading is_connected.
C34_ClientNeverBareDevice ==
    /\ _client \in {"None", "client"}
    /\ ~(op = "_ensure_connected" /\ ble_calls = <<>>
             /\ ensure_call.result = "raised")

\* C35: when _ensure_connected has finished, normally or with an
\* exception, and _client is a connected client, a CHAR_NOTIFY subscription
\* is active for it; a start_notify failure leaves no connected but
\* unsubscribed client.
C35_ConnectedMeansSubscribed ==
    (_client = "client" /\ is_connected) => subscribed

(***************************************************************************)
(* Sensor availability                                                     *)
(***************************************************************************)

\* C36: a sensor is available exactly when message_count > 0; once it is
\* available it is available in every later state, after the disconnect
\* callback and after async_shutdown too, and a step that is not a
\* notification leaves every sensor's value as it was.
C36_AvailableForGood ==
    [][/\ available' <=> (snapshot'.message_count > 0)
       /\ available => available'
       /\ op' # "_notification_handler" =>
              \A key \in SENSOR_DESCRIPTIONS :
                  value_fn(key, snapshot') = value_fn(key, snapshot)]_vars

\* After a charge of 85 was received the coordinator was shut down: no
\* client is left, the sensor is available and shows 85.
C36_Witness ==
    /\ op = "async_shutdown"
    /\ _client = "None"
    /\ ~subscribed
    /\ available
    /\ native_value("battery_charge_percent") = [kind |-> "num", n |-> 85, d |-> 1]

(***************************************************************************)
(* The user step's device list                                             *)
(***************************************************************************)

\* C37: the list of devices the user step offers never contains a device
\* whose address already has a config entry.
C37_NoConfiguredDeviceOffered ==
    (op = "async_step_user" /\ flow_call.type = "form") =>
        \A a \in flow_call.options :
            ~_abort_if_unique_id_configured(format_mac(a), entries)

(***************************************************************************)
(* message_count over the coordinator's life                               *)
(***************************************************************************)

\* C38: in every state message_count equals the number of notifications
\* so far whose bytes decoded, which is the number of times the listeners
\* were updated: a malformed frame adds 0 to both, every other frame 1, and
\* polls, disconnects, reconnects and the shutdown add nothing, the
\* coordinator keeping one snapshot for its whole life.
C38_CountEqualsDecoded ==
    /\ snapshot.message_count = listener_updates
    /\ listener_view.message_count = snapshot.message_count
    /\ (Handled /\ ~msg.ok) => handler_result = "returned"

\* Two notifications with unknown fields were decoded, and the coordinator
\* was shut down afterwards: both are counted and no field was written.
C38_Witness ==
    /\ op = "async_shutdown"
    /\ msg.ok
    /\ observed = {}
    /\ listener_updates = 2
    /\ snapshot.message_count = 2
    /\ snapshot.battery = BatteryState

====
